---- MODULE Spec2Model ----
(***************************************************************************)
(* Model of the backend-orchestration layer of the Multi-Engine Chess API  *)
(* (src/main.py): request entry points, the stockfish fallback chain, the  *)
(* parallel remote race, the move normalizer and the backup move selector. *)
(*                                                                         *)
(* Texts are sequences of one-character strings so that the normalizer is  *)
(* modelled by what it does to the characters.                             *)
(***************************************************************************)
EXTENDS Integers, Sequences, FiniteSets, TLC

VARIABLES
    engines,       \* the global registry `engines` (main.py:87): name -> handle
    pc,            \* position of the request being handled
    req,           \* the request in flight (endpoint, fen validity, position, engine, depth)
    trace,         \* adapter invocations of the current get_best_move call, in order
    analyseCalls,  \* Limit and wait_for timeout of each engine.analyse call of that call
    tasks,         \* state of each raced remote task
    taskOut,       \* value each raced remote task computed (or NoResult)
    finished,      \* raced tasks in the order they completed
    raceEnd,       \* how the race ended: "none" | "first_completed" | "ceiling" | "error"
    onlineResult,  \* value try_online_stockfish returned to analyze_with_stockfish
    bm,            \* outcome of the current get_best_move call
    ensIdx,        \* ensemble loop: index of the next requested engine name
    votes,         \* ensemble loop: the `results` list
    response,      \* what the entry point hands to the HTTP layer
    norm,          \* one clean_move_format call: its raw text and what it returned
    heur,          \* one analyze_with_backup call: position, random terms, result
    evalp,         \* one evaluate_position call: squares, side to move, value
    tally,         \* one vote count (main.py:465-478): results, consensus, confidence
    workers,       \* requests handled concurrently: each one's place in the chain
    js,            \* the StockfishJS object (stockfish_js.py:424) and its last calls
    lapi           \* one analyze_with_lichess_api call (backup_solution.py:5-42)

\* the request-handling state, and the state of the function calls and of the
\* concurrent requests examined on their own
coreVars == <<engines, pc, req, trace, analyseCalls, tasks, taskOut, finished, raceEnd, onlineResult, bm,
              ensIdx, votes, response>>
unitVars == <<norm, heur, evalp, tally, workers, js, lapi>>

vars == <<engines, pc, req, trace, analyseCalls, tasks, taskOut, finished, raceEnd, onlineResult, bm,
          ensIdx, votes, response, norm, heur, evalp, tally, workers, js, lapi>>

-----------------------------------------------------------------------------
(* Characters and texts *)

Alpha == {"a", "b", "c", "d", "e", "f", "g", "h", "m", "n", "o", "p", "q",
          "r", "s", "t", "v", "x", "y", "z", "O"}
Digit == {"0", "1", "2", "3", "4", "5", "6", "7", "8", "9"}
White == {" "}

IsAlpha(c) == c \in Alpha
IsDigit(c) == c \in Digit
IsSpace(c) == c \in White

Empty == << >>
BestmovePrefix == <<"b", "e", "s", "t", "m", "o", "v", "e", " ">>

T_e2e4 == <<"e", "2", "e", "4">>
T_d2d4 == <<"d", "2", "d", "4">>
T_g1f3 == <<"g", "1", "f", "3">>
T_d1h5 == <<"d", "1", "h", "5">>
T_h2h3 == <<"h", "2", "h", "3">>
T_e7e5 == <<"e", "7", "e", "5">>
T_a1a8 == <<"a", "1", "a", "8">>
T_xyz == <<"x", "y", "z">>
T_pad == <<" ">> \o T_e2e4
T_bestmove == BestmovePrefix \o T_e2e4 \o <<" ", "p", "o", "n", "d", "e", "r", " ">> \o T_e7e5
T_bestbad == BestmovePrefix \o T_xyz

\* str.startswith
StartsWith(s, p) == Len(s) >= Len(p) /\ SubSeq(s, 1, Len(p)) = p

\* str.strip(): drop leading and trailing whitespace
RECURSIVE LStrip(_)
LStrip(s) == IF s # Empty /\ IsSpace(Head(s)) THEN LStrip(Tail(s)) ELSE s

RECURSIVE RStrip(_)
RStrip(s) ==
    IF s # Empty /\ IsSpace(s[Len(s)]) THEN RStrip(SubSeq(s, 1, Len(s) - 1)) ELSE s

Strip(s) == RStrip(LStrip(s))

\* length of the leading run of non-whitespace characters
RECURSIVE TokenLen(_)
TokenLen(s) == IF s = Empty \/ IsSpace(Head(s)) THEN 0 ELSE 1 + TokenLen(Tail(s))

\* str.split() with no argument: the list of whitespace-separated tokens
RECURSIVE Split(_)
Split(s) ==
    LET t == LStrip(s)
        n == TokenLen(t)
    IN  IF t = Empty THEN << >>
        ELSE <<SubSeq(t, 1, n)>> \o Split(SubSeq(t, n + 1, Len(t)))

\* clean_move_format without its "bestmove " branch
clean_move_format_NoPrefix(raw_move) ==
    LET s == Strip(raw_move)
    IN  IF /\ Len(s) >= 4 /\ Len(s) <= 5
           /\ IsAlpha(s[1]) /\ IsDigit(s[2]) /\ IsAlpha(s[3]) /\ IsDigit(s[4])
        THEN s
        ELSE Empty

\* clean_move_format (main.py:526-550); the empty text is its failure value
clean_move_format(raw_move) ==
    IF raw_move = Empty THEN Empty
    ELSE IF StartsWith(raw_move, BestmovePrefix) /\ Len(Split(raw_move)) >= 2
         THEN Split(raw_move)[2]
    ELSE LET s == Strip(raw_move)
         IN  IF /\ Len(s) >= 4 /\ Len(s) <= 5
                /\ IsAlpha(s[1]) /\ IsDigit(s[2]) /\ IsAlpha(s[3]) /\ IsDigit(s[4])
             THEN s
             ELSE Empty

-----------------------------------------------------------------------------
(* The material evaluation *)

\* piece_values of evaluate_position (main.py:1107-1114)
material_values(t) ==
    CASE t = "P" -> 1
      [] t = "N" -> 3
      [] t = "B" -> 3
      [] t = "R" -> 5
      [] t = "Q" -> 9
      [] t = "K" -> 0

\* board.piece_at(square): a piece with its colour, or None
Piece(t, white) == [piece |-> t, white |-> white]
NoPiece == Piece("none", TRUE)

\* the loop over chess.SQUARES (main.py:1119-1126): white_material when
\* white is TRUE, black_material otherwise
RECURSIVE Material(_, _)
Material(pieces, white) ==
    IF pieces = << >> THEN 0
    ELSE (IF Head(pieces) # NoPiece /\ Head(pieces).white = white
          THEN material_values(Head(pieces).piece) ELSE 0)
             + Material(Tail(pieces), white)

\* evaluate_position returning the white-relative value whoever is to move
evaluate_position_Unsigned(board) ==
    (Material(board.pieces, TRUE) - Material(board.pieces, FALSE)) * 100

\* evaluate_position (main.py:1103-1136)
evaluate_position(board) ==
    LET material_diff ==
            (Material(board.pieces, TRUE) - Material(board.pieces, FALSE)) * 100
    IN  IF board.white THEN material_diff ELSE -material_diff

-----------------------------------------------------------------------------
(* Positions.  A position is what chess.Board(fen) yields for a well-formed *)
(* FEN: the list of legal moves in generation order, each with the board   *)
(* facts select_smart_move reads, and whether board.fen() is an opening    *)
(* book key.                                                               *)

Mv(uci, mover, captured, check, toFile, toRank, fromRank) ==
    [uci |-> uci, mover |-> mover, captured |-> captured, check |-> check,
     toFile |-> toFile, toRank |-> toRank, fromRank |-> fromRank]

\* the canonical starting position (three of its legal moves)
StartMoves ==
    << Mv(T_g1f3, "N", "none", FALSE, 5, 2, 0),
       Mv(T_e2e4, "P", "none", FALSE, 4, 3, 1),
       Mv(T_d2d4, "P", "none", FALSE, 3, 3, 1) >>

\* a middlegame position, white to move: Qd1xh5 takes a defended pawn
MidMoves ==
    << Mv(T_d1h5, "Q", "P", FALSE, 7, 4, 0),
       Mv(T_h2h3, "P", "none", FALSE, 7, 2, 1),
       Mv(T_e2e4, "P", "none", FALSE, 4, 3, 1) >>

\* the pieces evaluate_position counts: queens and kings, and in the
\* middlegame position white is a pawn down
Placement(id) ==
    IF id = "mid"
    THEN << Piece("K", TRUE), Piece("Q", TRUE), Piece("P", TRUE),
            Piece("K", FALSE), Piece("Q", FALSE), Piece("P", FALSE), Piece("P", FALSE) >>
    ELSE << Piece("K", TRUE), Piece("Q", TRUE), Piece("K", FALSE), Piece("Q", FALSE) >>

Board(id, book, moves) ==
    [id |-> id, book |-> book, moves |-> moves, white |-> TRUE, pieces |-> Placement(id)]

StartPos == Board("start", T_e2e4, StartMoves)
MidPos == Board("mid", Empty, MidMoves)
MatePos == Board("mate", Empty, << >>)

Positions == {StartPos, MidPos, MatePos}

Range(f) == {f[i] : i \in DOMAIN f}

\* list(board.legal_moves) as the set of UCI tokens
LegalMoves(board) == {m.uci : m \in Range(board.moves)}

-----------------------------------------------------------------------------
(* Analysis results: the dict every analyze_* function returns *)

Result(move, engine, depth) ==
    [best_move |-> move, engine_used |-> engine, depth_reached |-> depth,
     cp |-> << >>, mate |-> << >>, best_line |-> << >>]

\* JSON null / Python None in an evaluation field, and a number in it
Null == << >>
Num(v) == <<v>>

\* the "evaluation": {"cp": ..., "mate": ...} and "best_line" entries of a
\* result dict
WithAnalysis(r, cp, mate, best_line) ==
    [r EXCEPT !.cp = cp, !.mate = mate, !.best_line = best_line]

\* the whole list in place of its slice [:3]
Take3_All(s) == s

\* a list's slice [:3]
Take3(s) == SubSeq(s, 1, IF Len(s) < 3 THEN Len(s) ELSE 3)

\* Python None / a falsy stage result
NoResult == Result(Empty, "none", 0)

Min(a, b) == IF a <= b THEN a ELSE b

-----------------------------------------------------------------------------
(* The backup move selector *)

\* piece_values of select_smart_move (main.py:1033-1040)
piece_values(t) ==
    CASE t = "P" -> 100
      [] t = "N" -> 300
      [] t = "B" -> 300
      [] t = "R" -> 500
      [] t = "Q" -> 900
      [] t = "K" -> 10000

\* variant of MoveScore: a capture that loses material costs 20
MoveScore_MildPenalty(board, m) ==
    LET gain == piece_values(m.captured) - piece_values(m.mover)
        s1 == IF m.captured # "none"
              THEN (IF gain >= 0 THEN gain \div 10 ELSE -20)
              ELSE 0
        s2 == IF m.check /\ (m.captured = "none" \/ s1 >= 0) THEN s1 + 30 ELSE s1
        s3 == IF m.toFile \in {3, 4} /\ m.toRank \in {3, 4} THEN s2 + 20 ELSE s2
        s4 == IF /\ m.mover \in {"N", "B"}
                 /\ \/ board.white /\ m.fromRank = 0
                    \/ ~board.white /\ m.fromRank = 7
              THEN s3 + 25 ELSE s3
        s5 == IF m.toFile = 0 \/ m.toFile = 7 \/ m.toRank = 0 \/ m.toRank = 7
              THEN s4 - 5 ELSE s4
    IN  s5

\* score of one move before the random term (main.py:1046-1089)
MoveScore(board, m) ==
    LET gain == piece_values(m.captured) - piece_values(m.mover)
        s1 == IF m.captured # "none"
              THEN (IF gain >= 0 THEN gain \div 10 ELSE -200)
              ELSE 0
        s2 == IF m.check /\ (m.captured = "none" \/ s1 >= 0) THEN s1 + 30 ELSE s1
        s3 == IF m.toFile \in {3, 4} /\ m.toRank \in {3, 4} THEN s2 + 20 ELSE s2
        s4 == IF /\ m.mover \in {"N", "B"}
                 /\ \/ board.white /\ m.fromRank = 0
                    \/ ~board.white /\ m.fromRank = 7
              THEN s3 + 25 ELSE s3
        s5 == IF m.toFile = 0 \/ m.toFile = 7 \/ m.toRank = 0 \/ m.toRank = 7
              THEN s4 - 5 ELSE s4
    IN  s5

\* max(keys, key=...): the first key, in insertion order, with the largest value
FirstMax(idx, val) ==
    CHOOSE i \in idx :
        /\ \A j \in idx : val[j] <= val[i]
        /\ \A j \in idx : val[j] = val[i] => i <= j

\* variant of select_smart_move: the first move above the threshold is taken
select_smart_move_FirstGood(board, jitter) ==
    LET n == Len(board.moves)
        scores == [i \in 1..n |-> MoveScore(board, board.moves[i]) + jitter[i]]
        good == {i \in 1..n : scores[i] > -100}
    IN  IF good # {} THEN board.moves[CHOOSE i \in good : \A j \in good : i <= j]
        ELSE board.moves[FirstMax(1..n, scores)]

\* select_smart_move (main.py:1028-1101); jitter[i] is random.randint(1, 5) of move i
select_smart_move(board, jitter) ==
    LET n == Len(board.moves)
        scores == [i \in 1..n |-> MoveScore(board, board.moves[i]) + jitter[i]]
        good == {i \in 1..n : scores[i] > -100}
    IN  IF good # {} THEN board.moves[FirstMax(good, scores)]
        ELSE board.moves[FirstMax(1..n, scores)]

\* variant of Jitters: random.randint(1, 10)
Jitters_Wide(board) == [1..Len(board.moves) -> 1..10]

\* the random.randint(1, 5) terms of one select_smart_move call (main.py:1091)
Jitters(board) == [1..Len(board.moves) -> 1..5]

\* analyze_with_backup answering "e2e4" for a position outside the book
analyze_with_backup_DefaultMove(board, jitter) ==
    IF board.book # Empty THEN Result(board.book, "enhanced_backup", 15)
    ELSE Result(T_e2e4, "enhanced_backup", 12)

\* analyze_with_backup scoring the moves before it looks into the book
analyze_with_backup_ScoreFirst(board, jitter) ==
    IF board.moves # << >>
    THEN Result(select_smart_move(board, jitter).uci, "enhanced_backup", 12)
    ELSE IF board.book # Empty THEN Result(board.book, "enhanced_backup", 15)
    ELSE NoResult

\* analyze_with_backup (main.py:977-1026): a result, or the raised
\* Exception("No legal moves available") as NoResult
analyze_with_backup(board, jitter) ==
    IF board.book # Empty
    THEN WithAnalysis(Result(board.book, "enhanced_backup", 15),
                      Num(30), Null, <<board.book>>)
    ELSE IF board.moves = << >> THEN NoResult
    ELSE LET best_move == select_smart_move(board, jitter).uci
         IN  WithAnalysis(Result(best_move, "enhanced_backup", 12),
                          Num(evaluate_position(board)), Null, <<best_move>>)

\* the random.randint(1, 5) draws of one analyze_with_backup call: one per
\* legal move inside select_smart_move, none when the opening book answers
\* (main.py:998-1011 returns before select_smart_move is reached)
Draws(board) ==
    IF board.book # Empty THEN {[i \in 1..Len(board.moves) |-> 1]} ELSE Jitters(board)

\* the random.randint(-100, 100) analyze_with_random reports as its evaluation
RandomCp == 17

\* analyze_with_random (main.py:1138-1153); pick is random.choice's index
analyze_with_random(board, pick) ==
    IF board.moves = << >> THEN NoResult
    ELSE WithAnalysis(Result(board.moves[pick].uci, "random", 1),
                      Num(RandomCp), Null, <<board.moves[pick].uci>>)

-----------------------------------------------------------------------------
(* Bounded inputs *)

\* requested search depths (MoveRequest.depth; the local engine caps at 12)
DepthLo == 10
DepthHi == 15
Depths == {DepthLo, DepthHi}

\* MoveRequest.engine
EngineNames == {"stockfish", "random", "ensemble", "other"}

\* EnsembleRequest.engines
NameLists == { <<"stockfish", "random">>, <<"unknown">>, <<"random", "stockfish_backup">> }

\* texts a remote service may put in its move field
RawTexts == {T_e2e4, T_a1a8, T_bestmove, T_bestbad, T_pad, Empty}

\* a line of four moves, as lichess and chessdb put in their move field
T_line == T_e2e4 \o <<" ">> \o T_e7e5 \o <<" ">> \o T_g1f3 \o <<" ">> \o T_d2d4

\* the numbers a reply carries as its score
ReplyCp == 25
ReplyMate == 3

\* what one remote call yields: a 200 reply whose move field holds `text` and
\* whose score is in centipawns (a "cp" key and no "mate" key) or a mate
\* distance (a "mate" key and no "cp" key), or anything else (other status,
\* network error, the 2 s ClientTimeout, no field)
Replies ==
    {[ok |-> TRUE, text |-> t, score |-> "cp"] : t \in RawTexts}
        \cup {[ok |-> TRUE, text |-> T_line, score |-> "mate"],
              [ok |-> FALSE, text |-> Empty, score |-> "cp"]}

\* what one engine.analyse call on the native process yields: an info dict with
\* a principal variation (python-chess only parses legal moves into it), an info
\* dict without one, or an exception / the wait_for timeout
LocalOutcomes(board) ==
    {[kind |-> "pv", move |-> m, mate |-> b] : m \in LegalMoves(board), b \in BOOLEAN}
        \cup {[kind |-> "nopv", move |-> Empty, mate |-> FALSE],
              [kind |-> "raise", move |-> Empty, mate |-> FALSE]}

\* the numbers the native engine reports as its score
LocalCp == 35
LocalMate == 2

\* info["pv"]: the best move followed by three more moves
LocalPv(out) == <<out.move, T_e7e5, T_g1f3, T_d2d4>>

Adapters == {"lichess", "chessdb", "stockfish_online"}

\* MoveRequest.time_limit (main.py:56), in tenths of a second
DefaultTimeLimit == 10
TimeLimits == {DefaultTimeLimit, 30}

\* the depth and time_limit a best-move request carries: the shallow search
\* with the default budget, the deep one with the longer budget
Budgets == {b \in Depths \X TimeLimits : (b[1] = DepthLo) <=> (b[2] = DefaultTimeLimit)}

-----------------------------------------------------------------------------
(* The engine registry *)

NoEngines == [n \in {} |-> "none"]
NativeRegistry == [n \in {"stockfish", "random"} |->
                      IF n = "stockfish" THEN "native" ELSE "random_engine"]
BackupRegistry == [n \in {"stockfish_backup", "random"} |->
                      IF n = "stockfish_backup" THEN "backup_engine" ELSE "random_engine"]

\* hasattr(engines["stockfish"], 'analyse')
HasAnalyse(h) == h = "native"

\* main.py:876 and main.py:935
NativeAvailable == "stockfish" \in DOMAIN engines /\ HasAnalyse(engines["stockfish"])

\* main.py:556
OnlineLocalAvailable ==
    "stockfish" \in DOMAIN engines /\ engines["stockfish"] \notin {"unavailable", "stockfish_js"}

\* main.py:383
ChainAvailable == "stockfish" \in DOMAIN engines \/ "stockfish_backup" \in DOMAIN engines

-----------------------------------------------------------------------------
(* StockfishJS (stockfish_js.py) and analyze_with_lichess_api              *)
(* (backup_solution.py).  Both take the position as a FEN string; what     *)
(* they read of it is whether it is a key of their opening tables, whether *)
(* a full pawn row is on the board and whose turn it is.                   *)

Tok(a, b, c, d) == <<a, b, c, d>>

\* a FEN string: `js_book` is its entry in opening_book
\* (stockfish_js.py:342-357), `api_book` its entry in opening_moves
\* (backup_solution.py:30-33), `pawn_row` is "pppppppp" in board.lower(),
\* `legal` holds the legal moves among the tokens the selectors can name
Fen(id, turn, pawn_row, js_book, api_book, legal) ==
    [id |-> id, turn |-> turn, pawn_row |-> pawn_row, js_book |-> js_book,
     api_book |-> api_book, legal |-> legal]

\* rnbqkbnr/pppppppp/8/8/8/8/PPPPPPPP/RNBQKBNR w KQkq - 0 1
FenStart ==
    Fen("start", "w", TRUE, T_e2e4, Empty,
        {T_e2e4, T_d2d4, T_g1f3, Tok("b", "1", "c", "3")})

\* rnbqkbnr/pppppppp/8/8/4P3/8/PPPP1PPP/RNBQKBNR b KQkq e3 0 1
FenAfterE4 ==
    Fen("after_e4", "b", TRUE, T_e7e5, T_e7e5,
        {T_e7e5, Tok("d", "7", "d", "5"), Tok("g", "8", "f", "6"), Tok("b", "8", "c", "6")})

\* rnbqkbnr/pppppppp/8/8/3P4/8/PPP1PPPP/RNBQKBNR b KQkq - 0 1
FenAfterD4 ==
    Fen("after_d4", "b", TRUE, Empty, Empty,
        {T_e7e5, Tok("d", "7", "d", "5"), Tok("g", "8", "f", "6"), Tok("b", "8", "c", "6")})

\* r1bq1rk1/ppp2ppp/2np1n2/2b1p3/2B1P3/2NP1N2/PPP2PPP/R1BQ1RK1 w - - 0 7
FenMiddle ==
    Fen("middle", "w", FALSE, Empty, Empty,
        {Tok("f", "1", "e", "1"), Tok("g", "1", "h", "1")})

Fens == {FenStart, FenAfterE4, FenAfterD4, FenMiddle}
NoFen == Fen("none", "w", FALSE, Empty, Empty, {})

\* the dict analyze returns, or None
JsResult(bestmove, depth, source) == [bestmove |-> bestmove, depth |-> depth, source |-> source]
JsNone == JsResult(Empty, 0, "none")

\* _select_principled_move (stockfish_js.py:386-406): random.choice over a
\* fixed list of five moves; `pick` is the index drawn
_select_principled_move(fen, pick) ==
    LET opening_moves ==
            IF fen.pawn_row
            THEN (IF fen.turn = "w"
                  THEN << T_e2e4, T_d2d4, T_g1f3, Tok("b", "1", "c", "3"),
                          Tok("f", "1", "c", "4") >>
                  ELSE << T_e7e5, Tok("d", "7", "d", "5"), Tok("g", "8", "f", "6"),
                          Tok("b", "8", "c", "6"), Tok("f", "8", "c", "5") >>)
            ELSE (IF fen.turn = "w"
                  THEN << Tok("d", "1", "d", "5"), Tok("a", "1", "d", "1"),
                          Tok("f", "1", "e", "1"), Tok("g", "1", "h", "1"), T_e2e4 >>
                  ELSE << Tok("d", "8", "d", "4"), Tok("a", "8", "d", "8"),
                          Tok("f", "8", "e", "8"), Tok("g", "8", "h", "8"), T_e7e5 >>)
    IN  opening_moves[pick]

Picks == 1..5

\* _intelligent_fallback (stockfish_js.py:338-372): the opening book, else
\* the principled move; the evaluation it adds is left out
_intelligent_fallback(fen, pick) ==
    IF fen.js_book # Empty THEN JsResult(fen.js_book, 15, "fallback")
    ELSE JsResult(_select_principled_move(fen, pick), 8, "fallback")

\* the StockfishJS object (stockfish_js.py:20-24); a path is TRUE when set
StockfishJS(node_path, stockfish_wrapper_path, is_initialized) ==
    [node_path |-> node_path, stockfish_wrapper_path |-> stockfish_wrapper_path,
     is_initialized |-> is_initialized]

\* what running `node wrapper.js fen depth` under wait_for(15 s) yields: exit
\* code 0 with the wrapper's JSON object (the engine's move, or the wrapper's
\* own 'e2e4'), exit code 0 with output json.loads rejects, another exit
\* code, or an exception (spawn failure, timeout)
Subprocess(fen, depth) ==
    {[kind |-> "json", result |-> JsResult(m, depth, "wrapper")] : m \in fen.legal \cup {T_e2e4}}
        \cup {[kind |-> k, result |-> JsNone] : k \in {"unparsable", "nonzero", "raise"}}

\* StockfishJS.analyze (stockfish_js.py:306-336)
analyze(self, fen, run, pick) ==
    IF ~self.is_initialized THEN JsNone
    ELSE IF self.node_path /\ self.stockfish_wrapper_path /\ run.kind = "json"
         THEN run.result
    ELSE _intelligent_fallback(fen, pick)

\* _test_engine (stockfish_js.py:292-304): analyze on the position after 1.e4
_test_engine(self, run, pick) == analyze(self, FenAfterE4, run, pick) # JsNone

\* variant of initialize: the object is marked initialized only when the
\* engine test passed
initialize_Strict(self, node, wrapper, run, pick) ==
    LET s1 == [self EXCEPT !.node_path = node]
        s2 == IF node THEN [s1 EXCEPT !.stockfish_wrapper_path = wrapper] ELSE s1
    IN  IF node /\ wrapper /\ _test_engine(s2, run, pick)
        THEN [s2 EXCEPT !.is_initialized = TRUE]
        ELSE s2

\* StockfishJS.initialize (stockfish_js.py:26-51): `node` is whether
\* _ensure_nodejs found an interpreter, `wrapper` whether
\* _setup_real_stockfish_js wrote the wrapper (both catch their exceptions
\* and return None); every path sets is_initialized and returns True
initialize(self, node, wrapper, run, pick) ==
    LET s1 == [self EXCEPT !.node_path = node]
        s2 == IF node THEN [s1 EXCEPT !.stockfish_wrapper_path = wrapper] ELSE s1
    IN  [s2 EXCEPT !.is_initialized = TRUE]

\* which of initialize's two success messages is logged
initialize_Real(self, node, wrapper, run, pick) ==
    LET s1 == [self EXCEPT !.node_path = node]
        s2 == IF node THEN [s1 EXCEPT !.stockfish_wrapper_path = wrapper] ELSE s1
    IN  node /\ wrapper /\ _test_engine(s2, run, pick)

\* stockfish_js_engine = StockfishJS() with no call made yet: whether
\* initialize has returned and how, and the last analyze call (whether
\* initialize had returned before it, its position, what ran, what came back)
NoJs ==
    [self |-> StockfishJS(FALSE, FALSE, FALSE),
     init_run |-> FALSE, init_real |-> FALSE,
     called |-> FALSE, after_init |-> FALSE, fen |-> NoFen, run |-> "none", out |-> JsNone]

\* the dict analyze_with_lichess_api returns (backup_solution.py:20-26, 35-41)
LapiResult(best_move, engine_used, depth_reached) ==
    [best_move |-> best_move, engine_used |-> engine_used, depth_reached |-> depth_reached]

\* analyze_with_lichess_api (backup_solution.py:5-42): the reply's bestmove
\* key when the service answers 200 with one, else the entry of
\* opening_moves for the FEN, "e2e4" when there is none
analyze_with_lichess_api(fen, depth, reply) ==
    IF reply.ok THEN LapiResult(reply.text, "lichess_cloud", depth)
    ELSE LapiResult(IF fen.api_book # Empty THEN fen.api_book ELSE T_e2e4, "fallback", 1)

\* no analyze_with_lichess_api call is being examined
NoLapi == [fen |-> NoFen, out |-> LapiResult(Empty, "none", 0), applied |-> FALSE]

-----------------------------------------------------------------------------
(* Initial state: the module has been imported, startup has not run *)

NoBoard == Board("invalid", Empty, << >>)
NoReq == [endpoint |-> "none", fenValid |-> FALSE, board |-> NoBoard,
          names |-> << >>, depth |-> 0]
NoCall == [status |-> "none", engine |-> "none", depth |-> 0, time_limit |-> 0,
           result |-> NoResult]
NoResponse == [status |-> 0, body |-> NoResult]
IdleTasks == [a \in Adapters |-> "idle"]
NoTaskOut == [a \in Adapters |-> NoResult]

\* no function call is being examined on its own
NoNorm == [raw_move |-> Empty, out |-> Empty, applied |-> FALSE,
           again |-> Empty, reapplied |-> FALSE]
NoHeur == [board |-> NoBoard, jitter |-> << >>, out |-> NoResult, applied |-> FALSE]
NoEval == [pieces |-> << >>, white |-> TRUE, out |-> 0, applied |-> FALSE]
NoTally == [results |-> << >>, consensus_move |-> Empty, confidence |-> 0,
            applied |-> FALSE]

\* no request is handled concurrently with another
NoWorkers == << >>

\* the request-handling state after import
CoreInit ==
    /\ engines = NoEngines
    /\ pc = "boot"
    /\ req = NoReq
    /\ trace = << >>
    /\ analyseCalls = << >>
    /\ tasks = IdleTasks
    /\ taskOut = NoTaskOut
    /\ finished = << >>
    /\ raceEnd = "none"
    /\ onlineResult = NoResult
    /\ bm = NoCall
    /\ ensIdx = 0
    /\ votes = << >>
    /\ response = NoResponse

Init ==
    /\ CoreInit
    /\ norm = NoNorm
    /\ heur = NoHeur
    /\ evalp = NoEval
    /\ tally = NoTally
    /\ workers = NoWorkers
    /\ js = NoJs
    /\ lapi = NoLapi

Http(status, body) == [status |-> status, body |-> body]

\* engines[name] = handle
Register(e, name, handle) ==
    [n \in DOMAIN e \cup {name} |-> IF n = name THEN handle ELSE e[n]]

\* the failed test leaving the registry without its stockfish entry
Demote_DeleteOnly(e) == [n \in DOMAIN e \ {"stockfish"} |-> e[n]]

\* del engines["stockfish"]; engines["stockfish_backup"] = "backup_engine"
\* (main.py:241-242): two statements with no await between them
Demote(e) ==
    Register([n \in DOMAIN e \ {"stockfish"} |-> e[n]], "stockfish_backup", "backup_engine")

\* initialize_engines up to its `await test_all_engines()` (main.py:169-217):
\* the native engine is registered when a binary starts, the backup marker
\* otherwise, and "random" always.  The server takes no request before the
\* startup event has finished.
initialize_engines ==
    /\ pc = "boot"
    /\ \E found \in BOOLEAN :
          engines' = Register(IF found THEN Register(engines, "stockfish", "native")
                              ELSE Register(engines, "stockfish_backup", "backup_engine"),
                              "random", "random_engine")
    /\ pc' = "boot_test"
    /\ UNCHANGED <<req, trace, analyseCalls, tasks, taskOut, finished, raceEnd, onlineResult, bm, ensIdx,
                   votes, response>>
    /\ UNCHANGED unitVars

\* test_all_engines (main.py:219-242): a registered native engine is asked for
\* a depth-1 analysis; when that fails its entry is replaced by the backup
\* marker.  Startup is over.
test_all_engines ==
    /\ pc = "boot_test"
    /\ \E testOk \in BOOLEAN :
          engines' = IF "stockfish" \in DOMAIN engines /\ ~testOk THEN Demote(engines)
                     ELSE engines
    /\ pc' = "idle"
    /\ UNCHANGED <<req, trace, analyseCalls, tasks, taskOut, finished, raceEnd, onlineResult, bm, ensIdx,
                   votes, response>>
    /\ UNCHANGED unitVars

\* GET /api/v1/engines/status (main.py:480-514): for "stockfish" and "random"
\* the answer says whether the registry holds the name
get_engine_status_Body(e) ==
    [engines |-> [n \in {"stockfish", "random"} |-> n \in DOMAIN e]]

\* GET /health (main.py:516-524): list(engines.keys())
health_check_Body(e) == [status |-> "healthy", engines |-> DOMAIN e]

get_engine_status ==
    /\ pc = "idle"
    /\ req' = [NoReq EXCEPT !.endpoint = "status", !.fenValid = TRUE]
    /\ response' = Http(200, get_engine_status_Body(engines))
    /\ pc' = "done"
    /\ UNCHANGED <<engines, trace, analyseCalls, tasks, taskOut, finished, raceEnd, onlineResult, bm,
                   ensIdx, votes>>
    /\ UNCHANGED unitVars

health_check ==
    /\ pc = "idle"
    /\ req' = [NoReq EXCEPT !.endpoint = "health", !.fenValid = TRUE]
    /\ response' = Http(200, health_check_Body(engines))
    /\ pc' = "done"
    /\ UNCHANGED <<engines, trace, analyseCalls, tasks, taskOut, finished, raceEnd, onlineResult, bm,
                   ensIdx, votes>>
    /\ UNCHANGED unitVars

-----------------------------------------------------------------------------
(* get_best_move and the stockfish chain *)

Stage(name, res) == [stage |-> name, res |-> res]

\* where analyze_with_stockfish goes once the first native attempt is over or
\* skipped: into try_online_stockfish (main.py:915, 556, 685)
OnlineEntry == IF OnlineLocalAvailable THEN "online_local" ELSE "race_start"

\* where analyze_with_stockfish goes when try_online_stockfish returned None
\* (main.py:916, 935, 972)
AfterOnlineNone == IF NativeAvailable THEN "sf_native" ELSE "sf_backup"

\* variant of Route: the remote race is tried before the native engine
Route_RemoteFirst(engine) ==
    IF engine = "random" THEN "random"
    ELSE IF ChainAvailable THEN "race_start" ELSE "backup_direct"

\* the head of analyze_with_stockfish (main.py:866-876): "No Stockfish engine
\* available" is raised when neither registry entry exists, otherwise the
\* first native attempt is made or skipped
StockfishEntry ==
    IF ~ChainAvailable THEN "sf_no_engine"
    ELSE IF NativeAvailable THEN "sf_local1" ELSE OnlineEntry

\* variant of Route: a name that is neither "stockfish" nor "ensemble" is
\* served by the random engine
Route_UnknownToRandom(engine) ==
    IF engine \notin {"stockfish", "ensemble"} THEN "random"
    ELSE IF ChainAvailable THEN StockfishEntry ELSE "backup_direct"

\* get_best_move's dispatch on request.engine (main.py:380-400) down to the
\* first adapter call
Route(engine) ==
    IF engine = "random" THEN "random"
    ELSE IF ChainAvailable THEN StockfishEntry ELSE "backup_direct"

\* a get_best_move call starts: fresh per-call state
EnterBestMove(engine, depth, time_limit) ==
    /\ bm' = [status |-> "running", engine |-> engine, depth |-> depth,
              time_limit |-> time_limit, result |-> NoResult]
    /\ trace' = << >>
    /\ analyseCalls' = << >>
    /\ tasks' = IdleTasks
    /\ taskOut' = NoTaskOut
    /\ finished' = << >>
    /\ raceEnd' = "none"
    /\ onlineResult' = NoResult
    /\ pc' = Route(engine)

\* an analyze_* function returned `r` to get_best_move
Returned(r) ==
    /\ bm' = [bm EXCEPT !.status = "result", !.result = r]
    /\ pc' = "bm_return"

\* an analyze_* function raised; get_best_move turns any exception into
\* HTTPException(500, "Analysis failed: ...") (main.py:402-404)
Raised ==
    /\ bm' = [bm EXCEPT !.status = "http500"]
    /\ pc' = "bm_return"

\* POST /api/v1/best-move (main.py:366-400): FEN validation, then dispatch
get_best_move ==
    /\ pc = "idle"
    /\ \E valid \in BOOLEAN, engine \in EngineNames, budget \in Budgets :
       \E board \in (IF valid THEN Positions ELSE {NoBoard}) :
       LET depth == budget[1]
           time_limit == budget[2]
       IN
          /\ req' = [endpoint |-> "best_move", fenValid |-> valid, board |-> board,
                     names |-> << >>, depth |-> depth]
          /\ IF ~valid
             THEN /\ response' = Http(400, NoResult)
                  /\ pc' = "done"
                  /\ UNCHANGED <<trace, analyseCalls, tasks, taskOut, finished, raceEnd, onlineResult, bm>>
             ELSE /\ EnterBestMove(engine, depth, time_limit)
                  /\ UNCHANGED response
    /\ UNCHANGED <<engines, ensIdx, votes>>
    /\ UNCHANGED unitVars

\* variant of get_evaluation: the best move is requested before the FEN is
\* validated
get_evaluation_Unvalidated ==
    /\ pc = "idle"
    /\ \E valid \in BOOLEAN :
       \E board \in (IF valid THEN Positions ELSE {NoBoard}) :
          /\ req' = [endpoint |-> "evaluation", fenValid |-> valid, board |-> board,
                     names |-> << >>, depth |-> 12]
          /\ EnterBestMove("stockfish", 12, DefaultTimeLimit)
          /\ UNCHANGED response
    /\ UNCHANGED <<engines, ensIdx, votes>>
    /\ UNCHANGED unitVars

\* POST /api/v1/evaluation (main.py:411-421): FEN validation, then
\* get_best_move(MoveRequest(fen=..., depth=12)) with the default engine
get_evaluation ==
    /\ pc = "idle"
    /\ \E valid \in BOOLEAN :
       \E board \in (IF valid THEN Positions ELSE {NoBoard}) :
          /\ req' = [endpoint |-> "evaluation", fenValid |-> valid, board |-> board,
                     names |-> << >>, depth |-> 12]
          /\ IF ~valid
             THEN /\ response' = Http(400, NoResult)
                  /\ pc' = "done"
                  /\ UNCHANGED <<trace, analyseCalls, tasks, taskOut, finished, raceEnd, onlineResult, bm>>
             ELSE /\ EnterBestMove("stockfish", 12, DefaultTimeLimit)
                  /\ UNCHANGED response
    /\ UNCHANGED <<engines, ensIdx, votes>>
    /\ UNCHANGED unitVars

\* POST /api/v1/ensemble (main.py:436-445): FEN validation, then the loop
get_ensemble_analysis ==
    /\ pc = "idle"
    /\ \E valid \in BOOLEAN, names \in NameLists, depth \in Depths :
       \E board \in (IF valid THEN Positions ELSE {NoBoard}) :
          /\ req' = [endpoint |-> "ensemble", fenValid |-> valid, board |-> board,
                     names |-> names, depth |-> depth]
          /\ IF ~valid
             THEN /\ response' = Http(400, NoResult)
                  /\ pc' = "done"
                  /\ ensIdx' = 0
             ELSE /\ pc' = "ens_loop"
                  /\ ensIdx' = 1
                  /\ UNCHANGED response
    /\ votes' = << >>
    /\ UNCHANGED <<engines, trace, analyseCalls, tasks, taskOut, finished, raceEnd, onlineResult, bm>>
    /\ UNCHANGED unitVars

\* analyze_with_random (main.py:388, 1138-1153)
RandomStage ==
    /\ pc = "random"
    /\ \E pick \in (IF req.board.moves = << >> THEN {0} ELSE DOMAIN req.board.moves) :
          LET r == analyze_with_random(req.board, pick)
          IN  /\ trace' = Append(trace, Stage("random", IF r = NoResult THEN "fail" ELSE "ok"))
              /\ IF r = NoResult THEN Raised ELSE Returned(r)
    /\ UNCHANGED <<engines, analyseCalls, req, tasks, taskOut, finished, raceEnd, onlineResult, ensIdx,
                   votes, response>>
    /\ UNCHANGED unitVars

\* variant of LocalResult: best_line holds the moves after the best move
LocalResult_Continuation(out, engine, depth) ==
    WithAnalysis(Result(LocalPv(out)[1], engine, depth),
                 IF out.mate THEN Null ELSE Num(LocalCp),
                 IF out.mate THEN Num(LocalMate) ELSE Null,
                 Take3(Tail(LocalPv(out))))

\* result dict of a native analysis that produced a principal variation
LocalResult(out, engine, depth) ==
    WithAnalysis(Result(LocalPv(out)[1], engine, depth),
                 IF out.mate THEN Null ELSE Num(LocalCp),
                 IF out.mate THEN Num(LocalMate) ELSE Null,
                 Take3(LocalPv(out)))

\* engine.analyse(board, chess.engine.Limit(depth=..., time=...)) inside
\* asyncio.wait_for(..., timeout=...); times in tenths of a second
EngineCall(depth, time, timeout) == [depth |-> depth, time |-> time, timeout |-> timeout]

\* main.py:880-882 and main.py:562-564: Limit(depth=min(depth, 12), time=3.0),
\* timeout=5.0
EmergencyCall(depth) == EngineCall(Min(depth, 12), 30, 50)

\* main.py:939-940: Limit(depth=depth, time=time_limit), timeout=time_limit + 5
NativeCall(depth, time_limit) == EngineCall(depth, time_limit, time_limit + 50)

\* variant of LocalStage1: the native attempt is not wrapped in try/except, so
\* its exception leaves analyze_with_stockfish
LocalStage1_Unguarded ==
    /\ pc = "sf_local1"
    /\ analyseCalls' = Append(analyseCalls, EmergencyCall(bm.depth))
    /\ \E out \in LocalOutcomes(req.board) :
          IF out.kind = "pv"
          THEN /\ trace' = Append(trace, Stage("local", "ok"))
               /\ Returned(LocalResult(out, "stockfish_local_EMERGENCY_BYPASS",
                                       Min(bm.depth, 12)))
          ELSE /\ trace' = Append(trace, Stage("local", "fail"))
               /\ Raised
    /\ UNCHANGED <<engines, req, tasks, taskOut, finished, raceEnd, onlineResult, ensIdx,
                   votes, response>>
    /\ UNCHANGED unitVars

\* the first native attempt taking a failed engine out of the registry
LocalStage1_Demote ==
    /\ pc = "sf_local1"
    /\ analyseCalls' = Append(analyseCalls, EmergencyCall(bm.depth))
    /\ \E out \in LocalOutcomes(req.board) :
          IF out.kind = "pv"
          THEN /\ trace' = Append(trace, Stage("local", "ok"))
               /\ Returned(LocalResult(out, "stockfish_local_EMERGENCY_BYPASS",
                                       Min(bm.depth, 12)))
               /\ UNCHANGED engines
          ELSE /\ trace' = Append(trace, Stage("local", "fail"))
               /\ pc' = OnlineEntry
               /\ engines' = Demote(engines)
               /\ UNCHANGED bm
    /\ UNCHANGED <<req, tasks, taskOut, finished, raceEnd, onlineResult, ensIdx,
                   votes, response>>
    /\ UNCHANGED unitVars

\* first native attempt of analyze_with_stockfish (main.py:876-910): depth
\* min(depth, 12), 5 s wait_for; any exception, including "No best move
\* found", is logged and the function goes on
LocalStage1 ==
    /\ pc = "sf_local1"
    /\ analyseCalls' = Append(analyseCalls, EmergencyCall(bm.depth))
    /\ \E out \in LocalOutcomes(req.board) :
          IF out.kind = "pv"
          THEN /\ trace' = Append(trace, Stage("local", "ok"))
               /\ Returned(LocalResult(out, "stockfish_local_EMERGENCY_BYPASS",
                                       Min(bm.depth, 12)))
          ELSE /\ trace' = Append(trace, Stage("local", "fail"))
               /\ pc' = OnlineEntry
               /\ UNCHANGED bm
    /\ UNCHANGED <<engines, req, tasks, taskOut, finished, raceEnd, onlineResult, ensIdx,
                   votes, response>>
    /\ UNCHANGED unitVars

\* native attempt inside try_online_stockfish (main.py:556-598); its result is
\* try_online_stockfish's return value, which analyze_with_stockfish returns
OnlineLocalStage ==
    /\ pc = "online_local"
    /\ analyseCalls' = Append(analyseCalls, EmergencyCall(bm.depth))
    /\ \E out \in LocalOutcomes(req.board) :
          IF out.kind = "pv"
          THEN LET r == LocalResult(out, "stockfish_local_EMERGENCY", Min(bm.depth, 12))
               IN  /\ trace' = Append(trace, Stage("local", "ok"))
                   /\ onlineResult' = r
                   /\ Returned(r)
          ELSE /\ trace' = Append(trace, Stage("local", "fail"))
               /\ pc' = "race_start"
               /\ UNCHANGED <<bm, onlineResult>>
    /\ UNCHANGED <<engines, req, tasks, taskOut, finished, raceEnd, ensIdx, votes, response>>
    /\ UNCHANGED unitVars

\* last native attempt of analyze_with_stockfish (main.py:935-965): the
\* caller's depth and time_limit, wait_for(time_limit + 5)
NativeStage ==
    /\ pc = "sf_native"
    /\ analyseCalls' = Append(analyseCalls, NativeCall(bm.depth, bm.time_limit))
    /\ \E out \in LocalOutcomes(req.board) :
          IF out.kind = "pv"
          THEN /\ trace' = Append(trace, Stage("local", "ok"))
               /\ Returned(LocalResult(out, "stockfish_native", bm.depth))
          ELSE /\ trace' = Append(trace, Stage("local", "fail"))
               /\ pc' = "sf_backup"
               /\ UNCHANGED bm
    /\ UNCHANGED <<engines, req, tasks, taskOut, finished, raceEnd, onlineResult, ensIdx,
                   votes, response>>
    /\ UNCHANGED unitVars

\* variant of BackupStage: when the heuristic has no move to give, the whole
\* call is started again
BackupStage_Restart ==
    /\ pc \in {"sf_backup", "backup_direct"}
    /\ \E jitter \in Draws(req.board) :
          LET r == analyze_with_backup(req.board, jitter)
              named == IF pc = "sf_backup"
                       THEN [r EXCEPT !.engine_used = "EMERGENCY_BACKUP - APIs_FAILED"]
                       ELSE r
          IN  IF r = NoResult
              THEN EnterBestMove(bm.engine, bm.depth, bm.time_limit)
              ELSE /\ trace' = Append(trace, Stage("heuristic", "ok"))
                   /\ Returned(named)
                   /\ UNCHANGED <<analyseCalls, tasks, taskOut, finished, raceEnd,
                                  onlineResult>>
    /\ UNCHANGED <<engines, req, ensIdx, votes, response>>
    /\ UNCHANGED unitVars

\* analyze_with_backup as the chain's last stage (main.py:972-975), or called
\* directly by get_best_move when no stockfish entry is registered
\* (main.py:386); its "No legal moves available" exception propagates
BackupStage ==
    /\ pc \in {"sf_backup", "backup_direct"}
    /\ \E jitter \in Draws(req.board) :
          LET r == analyze_with_backup(req.board, jitter)
              named == IF pc = "sf_backup"
                       THEN [r EXCEPT !.engine_used = "EMERGENCY_BACKUP - APIs_FAILED"]
                       ELSE r
          IN  /\ trace' = Append(trace, Stage("heuristic",
                                              IF r = NoResult THEN "fail" ELSE "ok"))
              /\ IF r = NoResult THEN Raised ELSE Returned(named)
    /\ UNCHANGED <<engines, analyseCalls, req, tasks, taskOut, finished, raceEnd, onlineResult, ensIdx,
                   votes, response>>
    /\ UNCHANGED unitVars

-----------------------------------------------------------------------------
(* The remote race of try_online_stockfish *)

\* try_lichess (main.py:600-626): first token of pvs[0].moves, normalized
try_lichess(reply, depth) ==
    IF ~reply.ok \/ reply.text = Empty \/ Split(reply.text) = << >> THEN NoResult
    ELSE LET clean_move == clean_move_format(Split(reply.text)[1])
         IN  IF clean_move # Empty
             THEN WithAnalysis(Result(clean_move, "lichess_cloud", depth),
                               IF reply.score = "cp" THEN Num(ReplyCp) ELSE Num(0),
                               IF reply.score = "mate" THEN Num(ReplyMate) ELSE Null,
                               Take3(Split(reply.text)))
             ELSE NoResult

\* try_chessdb (main.py:628-653): first token of the stripped pv, normalized
try_chessdb(reply, depth) ==
    IF ~reply.ok \/ reply.text = Empty \/ Split(Strip(reply.text)) = << >> THEN NoResult
    ELSE LET clean_move == clean_move_format(Split(Strip(reply.text))[1])
         IN  IF clean_move # Empty
             THEN WithAnalysis(Result(clean_move, "chessdb", depth),
                               IF reply.score = "cp" THEN Num(ReplyCp) ELSE Num(0),
                               Null, Take3(Split(Strip(reply.text))))
             ELSE NoResult

\* try_stockfish_online (main.py:655-678): the whole bestmove field, normalized
try_stockfish_online(reply, depth) ==
    IF ~reply.ok \/ reply.text = Empty THEN NoResult
    ELSE LET clean_move == clean_move_format(reply.text)
         IN  IF clean_move # Empty
             THEN WithAnalysis(Result(clean_move, "stockfish_online", depth),
                               IF reply.score = "cp" THEN Num(ReplyCp) ELSE Num(0),
                               Null, <<clean_move>>)
             ELSE NoResult

\* the coroutine raced under each name (main.py:685)
TaskBody(a, reply, depth) ==
    CASE a = "lichess" -> try_lichess(reply, depth)
      [] a = "chessdb" -> try_chessdb(reply, depth)
      [] a = "stockfish_online" -> try_stockfish_online(reply, depth)

\* tasks = [try_lichess(), try_chessdb(), try_stockfish_online()] handed to
\* asyncio.wait (main.py:685-689): all three start running
RaceStart ==
    /\ pc = "race_start"
    /\ tasks' = [a \in Adapters |-> "running"]
    /\ trace' = Append(trace, Stage("race", "run"))
    /\ pc' = "race_wait"
    /\ UNCHANGED <<engines, analyseCalls, req, taskOut, finished, raceEnd, onlineResult, bm,
                   ensIdx, votes, response>>
    /\ UNCHANGED unitVars

\* one raced coroutine runs to its return statement while the caller is
\* suspended in asyncio.wait
TaskComplete(a) ==
    /\ pc = "race_wait"
    /\ tasks[a] = "running"
    /\ \E reply \in Replies :
          taskOut' = [taskOut EXCEPT ![a] = TaskBody(a, reply, bm.depth)]
    /\ tasks' = [tasks EXCEPT ![a] = "done"]
    /\ finished' = Append(finished, a)
    /\ UNCHANGED <<engines, pc, req, trace, analyseCalls, raceEnd, onlineResult, bm, ensIdx,
                   votes, response>>
    /\ UNCHANGED unitVars

\* the `done` set asyncio.wait hands back: every task finished by the time the
\* caller resumes
DoneTasks == {a \in Adapters : tasks[a] = "done"}

\* variant of CancelPending: the pending tasks are left running
CancelPending_Forgotten(t) == t

\* for task in pending: task.cancel() (main.py:692-693)
CancelPending(t) == [a \in Adapters |-> IF t[a] = "running" THEN "cancelled" ELSE t[a]]

\* for task in done: result = await task; if result: return result
\* (main.py:696-700).  `done` is a set, so any finished task with a truthy
\* result may be the one the loop meets first.
RaceWinners(done) == {a \in done : taskOut[a] # NoResult}

\* the race entry of the trace gets its outcome
CloseRace(res) == [trace EXCEPT ![Len(trace)] = Stage("race", res)]

\* asyncio.wait(..., return_when=FIRST_COMPLETED) returns because a task
\* finished (main.py:689-704)
RaceWake ==
    /\ pc = "race_wait"
    /\ DoneTasks # {}
    /\ raceEnd' = "first_completed"
    /\ tasks' = CancelPending(tasks)
    /\ IF RaceWinners(DoneTasks) # {}
       THEN \E w \in RaceWinners(DoneTasks) :
               /\ onlineResult' = taskOut[w]
               /\ trace' = CloseRace("ok")
               /\ Returned(taskOut[w])
       ELSE /\ onlineResult' = NoResult
            /\ trace' = CloseRace("fail")
            /\ pc' = AfterOnlineNone
            /\ UNCHANGED bm
    /\ UNCHANGED <<engines, analyseCalls, req, taskOut, finished, ensIdx, votes, response>>
    /\ UNCHANGED unitVars

\* asyncio.wait(..., timeout=10) returns because the 10 s ceiling elapsed with
\* no task finished: done is empty, every task is pending (main.py:689-693,
\* 714-715)
RaceCeiling ==
    /\ pc = "race_wait"
    /\ DoneTasks = {}
    /\ raceEnd' = "ceiling"
    /\ tasks' = CancelPending(tasks)
    /\ onlineResult' = NoResult
    /\ trace' = CloseRace("fail")
    /\ pc' = AfterOnlineNone
    /\ UNCHANGED <<engines, analyseCalls, req, taskOut, finished, bm, ensIdx, votes, response>>
    /\ UNCHANGED unitVars

\* the race's own `except Exception` (main.py:711-715): asyncio.wait raises
\* instead of waiting (Python 3.11 and later reject bare coroutines with
\* TypeError); no task was started, None is returned
RaceError ==
    /\ pc = "race_wait"
    /\ finished = << >>
    /\ raceEnd' = "error"
    /\ tasks' = IdleTasks
    /\ onlineResult' = NoResult
    /\ trace' = CloseRace("fail")
    /\ pc' = AfterOnlineNone
    /\ UNCHANGED <<engines, analyseCalls, req, taskOut, finished, bm, ensIdx, votes, response>>
    /\ UNCHANGED unitVars

\* variant of SettleTask: the late value replaces what the race returned
SettleTask_Overwrite(a, r) ==
    /\ tasks' = [tasks EXCEPT ![a] = "settled"]
    /\ taskOut' = [taskOut EXCEPT ![a] = r]
    /\ onlineResult' = r
    /\ UNCHANGED <<bm, response>>

\* what a cancelled coroutine's unwinding may touch: its own task object only.
\* Its return value, if it gets to one, has no reader (main.py:693, 600-678).
SettleTask(a, r) ==
    /\ tasks' = [tasks EXCEPT ![a] = "settled"]
    /\ taskOut' = [taskOut EXCEPT ![a] = r]
    /\ UNCHANGED <<onlineResult, bm, response>>

\* a cancelled task ends later: CancelledError at its await, or its reply
\* arriving first
TaskSettle(a) ==
    /\ pc \notin {"boot", "idle"}
    /\ tasks[a] = "cancelled"
    /\ \E reply \in Replies : SettleTask(a, TaskBody(a, reply, bm.depth))
    /\ UNCHANGED <<engines, pc, req, trace, analyseCalls, finished, raceEnd, ensIdx, votes>>
    /\ UNCHANGED unitVars

-----------------------------------------------------------------------------
(* Return paths of the entry points *)

\* get_best_move is called as a plain function by get_evaluation and
\* get_ensemble_analysis and returns the analyze_* dict; reading
\* move_result.evaluation / result.engine_used off a dict raises
\* AttributeError (main.py:424, 454)
DictAttributeRaises == TRUE

\* a weight table giving "stockfish" the weight 1.0
Weight_Full(name) ==
    CASE name = "stockfish" -> 10
      [] name = "random" -> 2
      [] OTHER -> 5

\* weights = {"stockfish": 0.8, "random": 0.2}; weights.get(name, 0.5), in tenths
Weight(name) ==
    CASE name = "stockfish" -> 8
      [] name = "random" -> 2
      [] OTHER -> 5

Vote(name, r) == [engine |-> r.engine_used, best_move |-> r.best_move,
                  weight |-> Weight(name)]

\* what move_votes holds for one move once every result is counted
\* (main.py:466-469), in tenths
RECURSIVE MoveVotes(_, _)
MoveVotes(vs, move) ==
    IF vs = << >> THEN 0
    ELSE (IF Head(vs).best_move = move THEN Head(vs).weight ELSE 0)
             + MoveVotes(Tail(vs), move)

\* move_votes[move] = move_votes.get(move, 0) + weight (main.py:469) on the
\* dict as its list of items in insertion order
RECURSIVE AddVote(_, _, _)
AddVote(d, move, weight) ==
    IF d = << >> THEN << [move |-> move, votes |-> weight] >>
    ELSE IF Head(d).move = move
         THEN << [move |-> move, votes |-> Head(d).votes + weight] >> \o Tail(d)
    ELSE << Head(d) >> \o AddVote(Tail(d), move, weight)

\* the loop over results (main.py:465-469)
RECURSIVE move_votes(_)
move_votes(results) ==
    IF results = << >> THEN << >>
    ELSE LET last == results[Len(results)]
         IN  AddVote(move_votes(SubSeq(results, 1, Len(results) - 1)),
                     last.best_move, last.weight)

\* max keeping the last of the largest items
RECURSIVE MaxItem_Last(_)
MaxItem_Last(d) ==
    IF Len(d) = 1 THEN d[1]
    ELSE LET rest == MaxItem_Last(Tail(d))
         IN  IF rest.votes >= Head(d).votes THEN rest ELSE Head(d)

\* max(move_votes, key=move_votes.get) (main.py:471): the first item, in
\* insertion order, with the largest votes
RECURSIVE MaxItem(_)
MaxItem(d) ==
    IF Len(d) = 1 THEN d[1]
    ELSE LET rest == MaxItem(Tail(d))
         IN  IF rest.votes > Head(d).votes THEN rest ELSE Head(d)

consensus_move(results) == MaxItem(move_votes(results)).move

\* round(x, 1) of x = num / den tenths, ties to the even tenth
RoundTenths(num, den) ==
    LET fl == num \div den
        twice == 2 * (num % den)
    IN  IF twice > den \/ (twice = den /\ fl % 2 = 1) THEN fl + 1 ELSE fl

\* the summed weight of all results, in tenths
RECURSIVE TotalWeight(_)
TotalWeight(results) ==
    IF results = << >> THEN 0 ELSE Head(results).weight + TotalWeight(Tail(results))

\* the confidence taken as the winner's share of the total weight
confidence_ByWeight(results) ==
    LET w == MaxItem(move_votes(results)).votes
    IN  RoundTenths(1000 * w, TotalWeight(results))

\* the confidence divided by the number of distinct moves
confidence_PerMove(results) ==
    LET w == MaxItem(move_votes(results)).votes
        n == Len(move_votes(results))
    IN  IF 100 * w >= 1000 * n THEN 1000 ELSE RoundTenths(100 * w, n)

\* round(min(100, votes / len(results) * 100), 1) (main.py:472, 476), in
\* tenths of a percent.  Sums and quotients of the doubles 0.8, 0.2 and 0.5
\* print as these decimal values for up to five results.
confidence(results) ==
    LET w == MaxItem(move_votes(results)).votes
        n == Len(results)
    IN  IF 100 * w >= 1000 * n THEN 1000 ELSE RoundTenths(100 * w, n)

\* get_best_move hands its outcome to whoever called it
\* (main.py:406-409; 421-434; 451-460)
ReturnBestMove ==
    /\ pc = "bm_return"
    /\ CASE req.endpoint = "best_move" ->
              /\ response' = IF bm.status = "result" THEN Http(200, bm.result)
                             ELSE Http(500, NoResult)
              /\ pc' = "done"
              /\ UNCHANGED <<ensIdx, votes>>
         [] req.endpoint = "evaluation" ->
              /\ response' = IF bm.status = "result" /\ ~DictAttributeRaises
                             THEN Http(200, bm.result)
                             ELSE Http(500, NoResult)
              /\ pc' = "done"
              /\ UNCHANGED <<ensIdx, votes>>
         [] req.endpoint = "ensemble" ->
              /\ votes' = IF bm.status = "result" /\ ~DictAttributeRaises
                          THEN Append(votes, Vote(req.names[ensIdx], bm.result))
                          ELSE votes
              /\ ensIdx' = ensIdx + 1
              /\ pc' = "ens_loop"
              /\ UNCHANGED response
    /\ UNCHANGED <<engines, req, trace, analyseCalls, tasks, taskOut, finished, raceEnd,
                   onlineResult, bm>>
    /\ UNCHANGED unitVars

\* one turn of `for engine_name in request.engines` (main.py:447-451), or the
\* code after the loop (main.py:462-478)
EnsembleStep ==
    /\ pc = "ens_loop"
    /\ IF ensIdx <= Len(req.names)
       THEN IF req.names[ensIdx] \in DOMAIN engines
            THEN /\ EnterBestMove(req.names[ensIdx], req.depth, DefaultTimeLimit)
                 /\ UNCHANGED <<ensIdx, votes, response>>
            ELSE /\ ensIdx' = ensIdx + 1
                 /\ UNCHANGED <<pc, trace, analyseCalls, tasks, taskOut, finished, raceEnd,
                                onlineResult, bm, votes, response>>
       ELSE /\ response' =
                  IF votes = << >> THEN Http(500, NoResult)
                  ELSE Http(200, Result(consensus_move(votes), "consensus",
                                        confidence(votes)))
            /\ pc' = "done"
            /\ UNCHANGED <<trace, analyseCalls, tasks, taskOut, finished, raceEnd, onlineResult,
                           bm, ensIdx, votes>>
    /\ UNCHANGED <<engines, req>>
    /\ UNCHANGED unitVars

\* the response leaves; nothing of the request is kept (no state outlives a
\* request except the registry)
Deliver ==
    /\ pc = "done"
    /\ pc' = "idle"
    /\ req' = NoReq
    /\ trace' = << >>
    /\ analyseCalls' = << >>
    /\ tasks' = IdleTasks
    /\ taskOut' = NoTaskOut
    /\ finished' = << >>
    /\ raceEnd' = "none"
    /\ onlineResult' = NoResult
    /\ bm' = NoCall
    /\ ensIdx' = 0
    /\ votes' = << >>
    /\ response' = NoResponse
    /\ UNCHANGED engines
    /\ UNCHANGED unitVars

-----------------------------------------------------------------------------

Next ==
    \/ initialize_engines
    \/ test_all_engines
    \/ get_engine_status
    \/ health_check
    \/ get_best_move
    \/ get_evaluation
    \/ get_ensemble_analysis
    \/ RandomStage
    \/ LocalStage1
    \/ OnlineLocalStage
    \/ RaceStart
    \/ \E a \in Adapters : TaskComplete(a)
    \/ RaceWake
    \/ RaceCeiling
    \/ RaceError
    \/ \E a \in Adapters : TaskSettle(a)
    \/ NativeStage
    \/ BackupStage
    \/ ReturnBestMove
    \/ EnsembleStep
    \/ Deliver

Spec == Init /\ [][Next]_vars

\* The steps the event loop takes for a request already accepted.  Each of
\* them is taken once it can be: a coroutine that can run is run, every
\* engine.analyse call sits in asyncio.wait_for (5 s, or time_limit + 5 s),
\* every remote call carries ClientTimeout(total=2), and asyncio.wait over the
\* remote tasks returns after 10 s at the latest.
Handling ==
    \/ RandomStage
    \/ LocalStage1
    \/ OnlineLocalStage
    \/ RaceStart
    \/ \E a \in Adapters : TaskComplete(a)
    \/ RaceWake
    \/ RaceCeiling
    \/ RaceError
    \/ NativeStage
    \/ BackupStage
    \/ ReturnBestMove
    \/ EnsembleStep

FairSpec == Init /\ [][Next]_vars /\ WF_vars(Handling)

-----------------------------------------------------------------------------
(* The move normalizer on its own: clean_move_format applied to one text *)

\* longest body text enumerated character by character
MaxBody == 4

\* a file letter, a rank digit, a letter that is no file, a digit that is no
\* rank, and whitespace
NormChars == {"e", "2", "z", "9", " "}

T_e7e8q == <<"e", "7", "e", "8", "q">>
T_ponder == <<" ", "p", "o", "n", "d", "e", "r", " ">> \o T_e7e5

Bodies ==
    UNION {[1..k -> NormChars] : k \in 0..MaxBody} \cup {T_e2e4, T_e7e8q, T_xyz, T_pad}

\* backend output: a body, possibly behind "bestmove " and before " ponder e7e5"
NormInputs ==
    {p \o b \o q : p \in {Empty, BestmovePrefix}, b \in Bodies, q \in {Empty, T_ponder}}

InitNorm ==
    /\ CoreInit
    /\ norm \in {[NoNorm EXCEPT !.raw_move = t] : t \in NormInputs}
    /\ heur = NoHeur
    /\ evalp = NoEval
    /\ tally = NoTally
    /\ workers = NoWorkers
    /\ js = NoJs
    /\ lapi = NoLapi

\* move = clean_move_format(raw) as the adapters call it (main.py:526-550)
Normalize ==
    /\ ~norm.applied
    /\ norm' = [norm EXCEPT !.out = clean_move_format(norm.raw_move), !.applied = TRUE]
    /\ UNCHANGED <<heur, evalp, tally, workers, js, lapi>>
    /\ UNCHANGED coreVars

\* clean_move_format called on what it returned (main.py:526-550)
NormalizeAgain ==
    /\ norm.applied /\ ~norm.reapplied
    /\ norm' = [norm EXCEPT !.again = clean_move_format(norm.out), !.reapplied = TRUE]
    /\ UNCHANGED <<heur, evalp, tally, workers, js, lapi>>
    /\ UNCHANGED coreVars

NextNorm == Normalize \/ NormalizeAgain

SpecNorm == InitNorm /\ [][NextNorm]_vars

-----------------------------------------------------------------------------
(* The backup engine on its own: analyze_with_backup applied to one position *)

\* most legal moves of an enumerated position
MaxMoves == 3

T_e4d5 == <<"e", "4", "d", "5">>
T_d1d7 == <<"d", "1", "d", "7">>
T_a1e5 == <<"a", "1", "e", "5">>

\* legal moves with the board facts select_smart_move reads: a centre push, a
\* second centre push, a development move, an edge move, a queen taking a
\* pawn, a pawn taking a queen in the centre, a checking queen move, a bishop
\* leaving the back rank to take a pawn in the centre with check
MovePool ==
    { Mv(T_e2e4, "P", "none", FALSE, 4, 3, 1),
      Mv(T_d2d4, "P", "none", FALSE, 3, 3, 1),
      Mv(T_g1f3, "N", "none", FALSE, 5, 2, 0),
      Mv(T_h2h3, "P", "none", FALSE, 7, 2, 1),
      Mv(T_d1h5, "Q", "P", FALSE, 7, 4, 0),
      Mv(T_e4d5, "P", "Q", FALSE, 3, 4, 3),
      Mv(T_d1d7, "Q", "none", TRUE, 3, 6, 0),
      Mv(T_a1e5, "B", "P", TRUE, 4, 4, 0) }

\* list(board.legal_moves): lists of distinct moves
MoveLists ==
    UNION { {ms \in [1..k -> MovePool] : \A i, j \in 1..k : ms[i] = ms[j] => i = j}
            : k \in 0..MaxMoves }

\* positions outside the opening book, and the starting position inside it
HeurBoards == {Board("pool", Empty, ms) : ms \in MoveLists} \cup {StartPos}

InitHeur ==
    /\ CoreInit
    /\ norm = NoNorm
    /\ heur \in {[board |-> b, jitter |-> << >>, out |-> NoResult, applied |-> FALSE]
                     : b \in HeurBoards}
    /\ evalp = NoEval
    /\ tally = NoTally
    /\ workers = NoWorkers
    /\ js = NoJs
    /\ lapi = NoLapi

\* one call of analyze_with_backup (main.py:977-1026); jitter holds the
\* random.randint(1, 5) drawn for each legal move
BackupAnalyse ==
    /\ ~heur.applied
    /\ \E jitter \in Jitters(heur.board) :
          heur' = [heur EXCEPT !.jitter = jitter,
                               !.out = analyze_with_backup(heur.board, jitter),
                               !.applied = TRUE]
    /\ UNCHANGED <<norm, evalp, tally, workers, js, lapi>>
    /\ UNCHANGED coreVars

NextHeur == BackupAnalyse

SpecHeur == InitHeur /\ [][NextHeur]_vars

-----------------------------------------------------------------------------
(* The material evaluation on its own: evaluate_position applied to one board *)

\* squares of an enumerated board
NumSquares == 3

PieceTypes == {"P", "N", "B", "R", "Q", "K"}

SquareContents == {Piece(t, w) : t \in PieceTypes, w \in BOOLEAN} \cup {NoPiece}

InitEval ==
    /\ CoreInit
    /\ norm = NoNorm
    /\ heur = NoHeur
    /\ evalp \in {[pieces |-> ps, white |-> w, out |-> 0, applied |-> FALSE]
                      : ps \in [1..NumSquares -> SquareContents], w \in BOOLEAN}
    /\ tally = NoTally
    /\ workers = NoWorkers
    /\ js = NoJs
    /\ lapi = NoLapi

\* one call of evaluate_position (main.py:1103-1136)
Evaluate ==
    /\ ~evalp.applied
    /\ evalp' = [evalp EXCEPT !.out = evaluate_position(evalp), !.applied = TRUE]
    /\ UNCHANGED <<norm, heur, tally, workers, js, lapi>>
    /\ UNCHANGED coreVars

NextEval == Evaluate

SpecEval == InitEval /\ [][NextEval]_vars

-----------------------------------------------------------------------------
(* The vote count on its own: main.py:465-478 applied to one list of results *)

\* most results in an enumerated list
MaxVotes == 4

VoteMoves == {T_e2e4, T_d2d4, T_g1f3}

\* results as the loop at main.py:447-458 appends them: one per requested
\* name found in the registry, names may repeat
ResultLists(registry) ==
    UNION { { [i \in 1..k |-> Vote(names[i], Result(moves[i], names[i], 1))]
                : names \in [1..k -> DOMAIN registry], moves \in [1..k -> VoteMoves] }
            : k \in 1..MaxVotes }

InitTally ==
    /\ CoreInit
    /\ norm = NoNorm
    /\ heur = NoHeur
    /\ evalp = NoEval
    /\ tally \in {[results |-> rs, consensus_move |-> Empty, confidence |-> 0,
                     applied |-> FALSE]
                      : rs \in ResultLists(NativeRegistry) \cup ResultLists(BackupRegistry)}
    /\ workers = NoWorkers
    /\ js = NoJs
    /\ lapi = NoLapi

\* the code after `if not results` (main.py:465-478)
CountVotes ==
    /\ ~tally.applied
    /\ tally' = [tally EXCEPT !.consensus_move = consensus_move(tally.results),
                               !.confidence = confidence(tally.results),
                               !.applied = TRUE]
    /\ UNCHANGED <<norm, heur, evalp, workers, js, lapi>>
    /\ UNCHANGED coreVars

NextTally == CountVotes

SpecTally == InitTally /\ [][NextTally]_vars

-----------------------------------------------------------------------------
(* Several requests on one event loop.  A handler runs alone from one await *)
(* to the next; at an await it is suspended and any other handler may run.  *)
(* Each request walks analyze_with_stockfish (main.py:866-975) against the  *)
(* one native engine handle of the registry.                                 *)

\* requests handled at the same time
MaxRequests == 2

Requests == 1..MaxRequests

\* a handler: its place in the chain, whether it is suspended in
\* `await asyncio.wait_for(engine.analyse(...))`, and the stage that answered
Worker(at, awaiting, answered) == [at |-> at, awaiting |-> awaiting, answered |-> answered]
IdleWorker == Worker("idle", FALSE, "none")

InitConc ==
    /\ engines \in {NativeRegistry, BackupRegistry}
    /\ pc = "idle"
    /\ req = NoReq
    /\ trace = << >>
    /\ analyseCalls = << >>
    /\ tasks = IdleTasks
    /\ taskOut = NoTaskOut
    /\ finished = << >>
    /\ raceEnd = "none"
    /\ onlineResult = NoResult
    /\ bm = NoCall
    /\ ensIdx = 0
    /\ votes = << >>
    /\ response = NoResponse
    /\ norm = NoNorm
    /\ heur = NoHeur
    /\ evalp = NoEval
    /\ tally = NoTally
    /\ workers = [r \in Requests |-> IdleWorker]
    /\ js = NoJs
    /\ lapi = NoLapi

\* a request arrives and get_best_move dispatches it (main.py:380-400)
Arrive(r) ==
    /\ workers[r].at = "idle"
    /\ workers' = [workers EXCEPT ![r] = Worker(Route("stockfish"), FALSE, "none")]
    /\ UNCHANGED <<norm, heur, evalp, tally, js, lapi>>
    /\ UNCHANGED coreVars

\* the handler calls engine.analyse on the registry's handle and awaits it
\* (main.py:880-883, 568-571, 938-941); nothing is acquired before the call
AnalyseCall(r) ==
    /\ workers[r].at \in {"sf_local1", "online_local", "sf_native"}
    /\ ~workers[r].awaiting
    /\ workers' = [workers EXCEPT ![r].awaiting = TRUE]
    /\ UNCHANGED <<norm, heur, evalp, tally, js, lapi>>
    /\ UNCHANGED coreVars

\* the awaited analysis ends: with a principal variation the handler returns,
\* otherwise it goes on to its next stage (main.py:885-910, 573-598, 943-965)
AnalyseResume(r) ==
    /\ workers[r].awaiting
    /\ \E ok \in BOOLEAN :
          workers' = [workers EXCEPT ![r] =
              IF ok THEN Worker("done", FALSE, workers[r].at)
              ELSE Worker(CASE workers[r].at = "sf_local1" -> OnlineEntry
                            [] workers[r].at = "online_local" -> "race_start"
                            [] workers[r].at = "sf_native" -> "sf_backup",
                          FALSE, "none")]
    /\ UNCHANGED <<norm, heur, evalp, tally, js, lapi>>
    /\ UNCHANGED coreVars

\* the handler starts the remote race and is suspended in asyncio.wait
\* (main.py:685-689)
RaceSuspend(r) ==
    /\ workers[r].at = "race_start"
    /\ workers' = [workers EXCEPT ![r].at = "race_wait"]
    /\ UNCHANGED <<norm, heur, evalp, tally, js, lapi>>
    /\ UNCHANGED coreVars

\* asyncio.wait returns, with a result or without one (main.py:689-715)
RaceResume(r) ==
    /\ workers[r].at = "race_wait"
    /\ \E ok \in BOOLEAN :
          workers' = [workers EXCEPT ![r] =
              IF ok THEN Worker("done", FALSE, "race")
              ELSE Worker(AfterOnlineNone, FALSE, "none")]
    /\ UNCHANGED <<norm, heur, evalp, tally, js, lapi>>
    /\ UNCHANGED coreVars

\* analyze_with_backup has no await inside: it runs to its end
\* (main.py:972-975, 386)
BackupRun(r) ==
    /\ workers[r].at \in {"sf_backup", "backup_direct"}
    /\ workers' = [workers EXCEPT ![r] = Worker("done", FALSE, "heuristic")]
    /\ UNCHANGED <<norm, heur, evalp, tally, js, lapi>>
    /\ UNCHANGED coreVars

\* the response leaves (main.py:406-409)
Respond(r) ==
    /\ workers[r].at = "done"
    /\ workers' = [workers EXCEPT ![r] = IdleWorker]
    /\ UNCHANGED <<norm, heur, evalp, tally, js, lapi>>
    /\ UNCHANGED coreVars

NextConc ==
    \/ \E r \in Requests : Arrive(r)
    \/ \E r \in Requests : AnalyseCall(r)
    \/ \E r \in Requests : AnalyseResume(r)
    \/ \E r \in Requests : RaceSuspend(r)
    \/ \E r \in Requests : RaceResume(r)
    \/ \E r \in Requests : BackupRun(r)
    \/ \E r \in Requests : Respond(r)

SpecConc == InitConc /\ [][NextConc]_vars

-----------------------------------------------------------------------------
(* The StockfishJS object and analyze_with_lichess_api on their own *)

InitJs ==
    /\ CoreInit
    /\ norm = NoNorm
    /\ heur = NoHeur
    /\ evalp = NoEval
    /\ tally = NoTally
    /\ workers = NoWorkers
    /\ js = NoJs
    /\ lapi = NoLapi

\* await stockfish_js_engine.initialize() (stockfish_js.py:26-51); it holds no
\* await that suspends, so it runs in one step
JsInitialize ==
    /\ ~lapi.applied
    /\ \E node \in BOOLEAN, wrapper \in BOOLEAN, pick \in Picks :
       \E run \in Subprocess(FenAfterE4, 5) :
          js' = [js EXCEPT !.self = initialize(js.self, node, wrapper, run, pick),
                           !.init_run = TRUE,
                           !.init_real = initialize_Real(js.self, node, wrapper, run, pick)]
    /\ UNCHANGED <<norm, heur, evalp, tally, workers, lapi>>
    /\ UNCHANGED coreVars

\* await stockfish_js_engine.analyze(fen, depth) (stockfish_js.py:306-336)
JsAnalyze ==
    /\ ~lapi.applied
    /\ \E fen \in Fens, depth \in Depths, pick \in Picks :
       \E run \in Subprocess(fen, depth) :
          js' = [js EXCEPT !.called = TRUE, !.after_init = js.init_run, !.fen = fen,
                           !.run = run.kind, !.out = analyze(js.self, fen, run, pick)]
    /\ UNCHANGED <<norm, heur, evalp, tally, workers, lapi>>
    /\ UNCHANGED coreVars

\* one call of analyze_with_lichess_api (backup_solution.py:5-42), examined
\* apart from the StockfishJS object
LichessApi ==
    /\ ~lapi.applied /\ js = NoJs
    /\ \E fen \in Fens, depth \in Depths, reply \in Replies :
          lapi' = [fen |-> fen, out |-> analyze_with_lichess_api(fen, depth, reply),
                   applied |-> TRUE]
    /\ UNCHANGED <<norm, heur, evalp, tally, workers, js>>
    /\ UNCHANGED coreVars

NextJs == JsInitialize \/ JsAnalyze \/ LichessApi

SpecJs == InitJs /\ [][NextJs]_vars

-----------------------------------------------------------------------------
(* Properties *)

\* the get_best_move call in flight went through the stockfish chain
ChainCall == bm.status # "none" /\ bm.engine # "random"

\* C1: for a position with at least one legal move, the best_move that
\* get_best_move returns through the stockfish chain is one of the position's
\* legal moves, whichever stage produced it.
C1_BestMoveIsLegal ==
    (pc = "bm_return" /\ ChainCall /\ bm.status = "result"
         /\ LegalMoves(req.board) # {})
        => bm.result.best_move \in LegalMoves(req.board)

\* C2: for a position with at least one legal move, a get_best_move call that
\* goes through the stockfish chain ends with a result, never with an error,
\* and the best-move endpoint answers 200.
C2_ChainNeverErrors ==
    (ChainCall /\ LegalMoves(req.board) # {})
        => /\ pc = "bm_return" => bm.status = "result"
           /\ (pc = "done" /\ req.endpoint = "best_move") => response.status = 200

\* C2 witness: the native engine, the race and the native retry all failed and
\* the backup stage produced the answer of a best-move request
C2_Witness ==
    /\ pc = "done" /\ req.endpoint = "best_move" /\ response.status = 200
    /\ response.body.engine_used = "EMERGENCY_BACKUP - APIs_FAILED"
    /\ Len(trace) = 5 /\ trace[1] = Stage("local", "fail")
    /\ trace[3] = Stage("race", "fail")

\* C3: whenever a request with a malformed FEN is in flight, it has been
\* answered 400 with no adapter invoked, no get_best_move call made and no
\* remote task created, and the step that took it in left the registry as it was.
C3_InvalidFenRejectedFirst ==
    [][ (req' # NoReq /\ ~req'.fenValid)
           => /\ pc' = "done" /\ response'.status = 400
              /\ trace' = << >> /\ bm' = NoCall /\ tasks' = IdleTasks
              /\ votes' = << >>
              /\ engines' = engines ]_vars

\* C3 witness: an ensemble request with a malformed FEN has been answered
C3_Witness ==
    pc = "done" /\ req.endpoint = "ensemble" /\ ~req.fenValid /\ response.status = 400

\* C4: through the stockfish chain, get_best_move ends without a move exactly
\* when the position has no legal move.
C4_NoMoveIffTerminal ==
    (pc = "bm_return" /\ ChainCall)
        => (bm.status = "http500" <=> LegalMoves(req.board) = {})

\* C5: a best-move request on a position without legal moves that got no move
\* is not answered with the server-error status.
C5_TerminalIsNotAnError ==
    (pc = "done" /\ req.endpoint = "best_move" /\ req.fenValid
         /\ LegalMoves(req.board) = {} /\ response.body = NoResult)
        => response.status # 500

\* C6: a race that was ended by a finished task returns None only when every
\* task has completed without a result: one task completing early with None
\* does not end the race while another is still running.
C6_NoneOnlyWhenAllFailed ==
    (raceEnd = "first_completed" /\ onlineResult = NoResult)
        => \A a \in Adapters : tasks[a] = "done" /\ taskOut[a] = NoResult

\* C7: when every task that completed did so with a result, the race returns
\* the result of the task that completed first, and no task is left running.
C7_EarliestWins ==
    (raceEnd = "first_completed" /\ \A a \in Range(finished) : taskOut[a] # NoResult)
        => /\ onlineResult = taskOut[finished[1]]
           /\ \A a \in Adapters : tasks[a] # "running"

\* C8: once the race has returned, no later step of the same get_best_move
\* call changes the value it returned or the call's result, and a response
\* that has been built stays as it is.
C8_ReturnedResultIsFixed ==
    [][ /\ (raceEnd # "none" /\ raceEnd' # "none")
              => /\ onlineResult' = onlineResult
                 /\ bm.status = "result" => bm' = bm
        /\ (pc = "done" /\ pc' = "done") => response' = response ]_vars

\* C8 witness: the race returned one task's move and a task it cancelled
\* ended later with a different move
C8_Witness ==
    /\ raceEnd = "first_completed" /\ onlineResult # NoResult
    /\ \E a \in Adapters :
          /\ tasks[a] = "settled" /\ taskOut[a] # NoResult
          /\ taskOut[a].best_move # onlineResult.best_move

\* C9: when the race ended by its ceiling, no task had completed, the race
\* returned None and every task has been cancelled.
C9_CeilingReturnsNoneAndCancels ==
    raceEnd = "ceiling"
        => /\ onlineResult = NoResult
           /\ finished = << >>
           /\ \A a \in Adapters : tasks[a] \in {"cancelled", "settled"}
           /\ pc # "bm_return" \/ bm.result.engine_used \notin
                  {"lichess_cloud", "chessdb", "stockfish_online"}

\* C9 witness: the ceiling elapsed and the chain has moved on
C9_Witness ==
    raceEnd = "ceiling" /\ pc \in {"sf_native", "sf_backup"}

C11_NoStageRetried ==
    /\ Cardinality({i \in DOMAIN trace : trace[i].stage = "local"}) <= 1
    /\ Cardinality({i \in DOMAIN trace : trace[i].stage = "race"}) <= 1

\* C12: clean_move_format turns "bestmove e2e4 ponder e7e5" into "e2e4",
\* returns "e7e8q" as it is, and fails on the empty text.
C12_NormalizerExamples ==
    norm.applied
        => /\ norm.raw_move = T_bestmove => norm.out = T_e2e4
           /\ norm.raw_move = T_e7e8q => norm.out = T_e7e8q
           /\ norm.raw_move = Empty => norm.out = Empty

\* C12 witness: the prefixed text has been normalized to its move token
C12_Witness ==
    norm.applied /\ norm.raw_move = T_bestmove /\ norm.out = T_e2e4

\* the grammar <file><rank><file><rank>[promotion-letter]
IsMoveToken(t) ==
    /\ Len(t) \in {4, 5}
    /\ t[1] \in {"a", "b", "c", "d", "e", "f", "g", "h"}
    /\ t[2] \in {"1", "2", "3", "4", "5", "6", "7", "8"}
    /\ t[3] \in {"a", "b", "c", "d", "e", "f", "g", "h"}
    /\ t[4] \in {"1", "2", "3", "4", "5", "6", "7", "8"}
    /\ Len(t) = 5 => t[5] \in {"q", "r", "b", "n"}

\* the first candidate token of a text: the token after a "bestmove " prefix,
\* otherwise the text without surrounding whitespace
FirstCandidate(t) ==
    IF StartsWith(t, BestmovePrefix) /\ Len(Split(t)) >= 2 THEN Split(t)[2] ELSE Strip(t)

\* C13: whatever clean_move_format returns as a success is a move token of the
\* grammar, and a text whose first candidate token is not of that form fails.
C13_SuccessIsMoveToken ==
    norm.applied
        => /\ norm.out # Empty => IsMoveToken(norm.out)
           /\ ~IsMoveToken(FirstCandidate(norm.raw_move)) => norm.out = Empty

\* C14: analyze_with_backup returns one of the position's legal moves whenever
\* there is one, and ends with the no-legal-moves failure, and nothing else,
\* when there is none.
C14_BackupReturnsLegalMove ==
    heur.applied
        => IF LegalMoves(heur.board) # {}
           THEN heur.out # NoResult /\ heur.out.best_move \in LegalMoves(heur.board)
           ELSE heur.out = NoResult

\* C14 witness: on a position outside the book whose first move is a losing
\* capture, the selector returned another legal move
C14_Witness ==
    /\ heur.applied /\ heur.board.book = Empty /\ Len(heur.board.moves) = MaxMoves
    /\ heur.board.moves[1].uci = T_d1h5
    /\ heur.out.best_move \in LegalMoves(heur.board) \ {T_d1h5}

\* C15: on a position found in the opening book the book's move is returned
\* whatever the random terms are; on the starting position it is "e2e4".
C15_BookMoveReturned ==
    heur.applied
        => /\ heur.board.book # Empty => heur.out.best_move = heur.board.book
           /\ heur.board = StartPos => heur.out.best_move = T_e2e4

\* C15 witness: the starting position answered "e2e4" with the largest random
\* term on another move
C15_Witness ==
    /\ heur.applied /\ heur.board = StartPos /\ heur.out.best_move = T_e2e4
    /\ heur.jitter[1] = 5 /\ heur.jitter[2] = 1

\* number of pieces of one type and colour on the board
CountOf(pieces, t, w) == Cardinality({i \in DOMAIN pieces : pieces[i] = Piece(t, w)})

\* white's pieces minus black's, weighted pawn 1, knight 3, bishop 3, rook 5,
\* queen 9, king 0
MaterialBalance(pieces) ==
    1 * (CountOf(pieces, "P", TRUE) - CountOf(pieces, "P", FALSE))
      + 3 * (CountOf(pieces, "N", TRUE) - CountOf(pieces, "N", FALSE))
      + 3 * (CountOf(pieces, "B", TRUE) - CountOf(pieces, "B", FALSE))
      + 5 * (CountOf(pieces, "R", TRUE) - CountOf(pieces, "R", FALSE))
      + 9 * (CountOf(pieces, "Q", TRUE) - CountOf(pieces, "Q", FALSE))
      + 0 * (CountOf(pieces, "K", TRUE) - CountOf(pieces, "K", FALSE))

\* C16: evaluate_position is 100 times the material balance, negated when
\* black is to move, so that the same placement with the other side to move
\* evaluates to the opposite value.
C16_MaterialEvaluation ==
    evalp.applied
        => /\ evalp.out = (IF evalp.white THEN 1 ELSE -1) * 100 * MaterialBalance(evalp.pieces)
           /\ evaluate_position([evalp EXCEPT !.white = ~evalp.white]) = -evalp.out

\* C16 witness: black to move, a white queen against a black knight and king
C16_Witness ==
    /\ evalp.applied /\ ~evalp.white
    /\ CountOf(evalp.pieces, "Q", TRUE) = 1 /\ CountOf(evalp.pieces, "N", FALSE) = 1
    /\ CountOf(evalp.pieces, "K", FALSE) = 1
    /\ evalp.out = -600

\* index of the first result voting for a move
FirstVote(results, move) ==
    CHOOSE i \in DOMAIN results :
        /\ results[i].best_move = move
        /\ \A j \in 1..(i - 1) : results[j].best_move # move

\* C17: the consensus move has the highest summed weight, and among moves
\* with that same sum it is the one whose first vote was collected earliest.
C17_ConsensusIsHeaviestThenEarliest ==
    tally.applied
        => \A j \in DOMAIN tally.results :
              LET other == tally.results[j].best_move
                  mine == MoveVotes(tally.results, tally.consensus_move)
                  theirs == MoveVotes(tally.results, other)
              IN  /\ theirs <= mine
                  /\ (theirs = mine /\ other # tally.consensus_move)
                        => FirstVote(tally.results, tally.consensus_move)
                               < FirstVote(tally.results, other)

\* C17 witness: two moves tie at 0.8 and the one voted for first is not the
\* one voted for last
C17_Witness ==
    /\ tally.applied /\ Len(tally.results) = 3
    /\ tally.results[1].best_move = T_d2d4 /\ tally.results[1].weight = 8
    /\ tally.results[2].best_move = T_e2e4 /\ tally.results[2].weight = 8
    /\ tally.results[3].best_move = T_g1f3 /\ tally.results[3].weight = 2
    /\ tally.consensus_move = T_d2d4

\* the results e2e4 by "stockfish" (0.8) and `move` by "random" (0.2)
TwoVotes(move) ==
    << Vote("stockfish", Result(T_e2e4, "stockfish", 1)),
       Vote("random", Result(move, "random", 1)) >>

\* C18: the confidence, in tenths of a percent, is 100.0 when the winning
\* weight reaches the number of results and otherwise the tenth nearest to
\* winning weight / number of results * 100; e2e4 at 0.8 against d2d4 at 0.2
\* gives e2e4 with 40.0.
C18_ConfidenceFormula ==
    tally.applied
        => LET w == MoveVotes(tally.results, tally.consensus_move)
               n == Len(tally.results)
           IN  /\ tally.confidence <= 1000
               /\ 100 * w >= 1000 * n => tally.confidence = 1000
               /\ 100 * w < 1000 * n
                     => /\ 2 * (tally.confidence * n - 100 * w) <= n
                        /\ 2 * (100 * w - tally.confidence * n) <= n
               /\ tally.results = TwoVotes(T_d2d4)
                     => tally.consensus_move = T_e2e4 /\ tally.confidence = 400

\* C18 witness: e2e4 at 0.8 against d2d4 at 0.2 has been counted
C18_Witness ==
    tally.applied /\ tally.results = TwoVotes(T_d2d4) /\ tally.confidence = 400

\* C19 as stated: two results for e2e4 with weights 0.8 and 0.2 give the
\* consensus e2e4 with confidence 100.0.
C19_UnanimousIsCertain ==
    (tally.applied /\ tally.results = TwoVotes(T_e2e4))
        => tally.consensus_move = T_e2e4 /\ tally.confidence = 1000

\* C19 amended: two results for e2e4 with weights 0.8 and 0.2 give the
\* consensus e2e4 with confidence 50.0: the summed weight 1.0 is divided by
\* the two results.
C19_UnanimousIsHalf ==
    (tally.applied /\ tally.results = TwoVotes(T_e2e4))
        => tally.consensus_move = T_e2e4 /\ tally.confidence = 500

\* C19 witness: the two results for e2e4 have been counted
C19_Witness ==
    tally.applied /\ tally.results = TwoVotes(T_e2e4) /\ tally.consensus_move = T_e2e4

\* C20: a well-formed ensemble request is answered with the all-engines-failed
\* error only when no result was collected, and when at least one requested
\* name is in the registry and the position has a legal move it is answered
\* with a consensus result.
C20_EnsembleFailsOnlyWhenNoNameResolves ==
    (pc = "done" /\ req.endpoint = "ensemble" /\ req.fenValid)
        => /\ response.status = 500 => votes = << >>
           /\ ((\E i \in DOMAIN req.names : req.names[i] \in DOMAIN engines)
                   /\ LegalMoves(req.board) # {})
                 => response.status = 200 /\ response.body.engine_used = "consensus"

\* C21: every result get_best_move returns, whichever stage produced it, has
\* exactly one of evaluation.cp and evaluation.mate non-null.
C21_ExactlyOneOfCpMate ==
    (pc = "bm_return" /\ bm.status = "result")
        => (bm.result.cp = Null) # (bm.result.mate = Null)

\* C22: the depth_reached of every result get_best_move returns is at most
\* the depth its caller requested.
C22_DepthWithinRequest ==
    (pc = "bm_return" /\ bm.status = "result")
        => bm.result.depth_reached <= bm.depth

\* C23: the best_line of every result get_best_move returns holds at most
\* three move tokens.
C23_BestLineAtMostThree ==
    (pc = "bm_return" /\ bm.status = "result") => Len(bm.result.best_line) <= 3

\* C23 witness: lichess answered with a line of four moves and the result
\* carries its first three
C23_Witness ==
    /\ pc = "bm_return" /\ bm.status = "result"
    /\ bm.result.engine_used = "lichess_cloud"
    /\ bm.result.best_line = <<T_e2e4, T_e7e5, T_g1f3>>

\* C24: at no time are two analyse calls in flight on the native engine
\* handle.
C24_LocalCallsExclusive ==
    Cardinality({r \in Requests : workers[r].awaiting}) <= 1

\* C25: no step taken on behalf of a request (best move, evaluation, ensemble,
\* status, health) changes the engine registry: only the two startup steps
\* write it.
C25_RequestsOnlyReadRegistry ==
    [][pc \notin {"boot", "boot_test"} => engines' = engines]_vars

\* C25 witness: a request whose native attempt failed has been answered and
\* the registry still holds the native engine
C25_Witness ==
    /\ pc = "done"
    /\ engines = NativeRegistry
    /\ \E i \in DOMAIN trace : trace[i] = Stage("local", "fail")

\* C26: whenever a request can be handled, that is once startup is over, the
\* registry holds "random" and exactly one of "stockfish" and
\* "stockfish_backup".
C26_RegistryIsCompleteSnapshot ==
    pc \notin {"boot", "boot_test"}
        => /\ "random" \in DOMAIN engines
           /\ ("stockfish" \in DOMAIN engines) # ("stockfish_backup" \in DOMAIN engines)

\* C26 witness: the health handler reports the registry left by startup with
\* the backup marker in place of the native engine
C26_Witness ==
    /\ pc = "done" /\ req.endpoint = "health"
    /\ response.body.engines = {"stockfish_backup", "random"}

\* C28: every analyse call on the native engine is made while the registry
\* marks the engine available, with the caller's depth and time budget, under
\* a wait_for timeout of the time budget plus the five-second margin.
C28_NativeCallUsesCallersLimits ==
    \A i \in DOMAIN analyseCalls :
        /\ NativeAvailable
        /\ analyseCalls[i] = NativeCall(bm.depth, bm.time_limit)

\* C27: under the timeouts of FairSpec every best-move request that has been
\* accepted is eventually answered, with a result (200) or an error (400, 500).
C27_BestMoveRequestCompletes ==
    (req.endpoint = "best_move")
        ~> (pc = "done" /\ req.endpoint = "best_move" /\ response.status \in {200, 400, 500})

\* C27 witness: a best-move request has been answered after the native
\* attempts, the remote race and the heuristic were all gone through
C27_Witness ==
    /\ pc = "done" /\ req.endpoint = "best_move"
    /\ \E i, j, k \in DOMAIN trace :
          /\ trace[i] = Stage("local", "fail")
          /\ trace[j] = Stage("race", "fail")
          /\ trace[k].stage = "heuristic"

\* the move analyze_with_backup answered with, as an index into the legal moves
HeurChosen == CHOOSE i \in DOMAIN heur.board.moves : heur.board.moves[i].uci = heur.out.best_move

\* scores[move] of the examined call: the score plus the move's random term
HeurScore(i) == MoveScore(heur.board, heur.board.moves[i]) + heur.jitter[i]

\* the examined call went through select_smart_move
HeurSelected == heur.applied /\ heur.board.book = Empty /\ heur.board.moves # << >>

\* C29: select_smart_move returns a move scoring above the blunder threshold
\* of -100 whenever there is one, and then the best-scoring of those; when
\* every legal move is at or below the threshold it returns the best-scoring
\* of all.
C29_BlunderThreshold ==
    HeurSelected
        => LET idx == DOMAIN heur.board.moves
               good == {j \in idx : HeurScore(j) > -100}
           IN  /\ heur.board.moves[HeurChosen].uci = heur.out.best_move
               /\ IF good # {}
                  THEN /\ HeurChosen \in good
                       /\ \A j \in good : HeurScore(j) <= HeurScore(HeurChosen)
                  ELSE \A j \in idx : HeurScore(j) <= HeurScore(HeurChosen)

\* C29 witness: both legal moves are losing captures and the less bad one,
\* listed second, was returned
C29_Witness ==
    /\ HeurSelected /\ Len(heur.board.moves) = 2
    /\ heur.board.moves[1].uci = T_d1h5 /\ heur.board.moves[2].uci = T_a1e5
    /\ \A j \in DOMAIN heur.board.moves : HeurScore(j) <= -100
    /\ heur.out.best_move = T_a1e5

\* C30: whatever the random terms are, no legal move has a higher score
\* without its random term than the move select_smart_move returns.
C30_JitterOnlyBreaksTies ==
    HeurSelected
        => \A j \in DOMAIN heur.board.moves :
              MoveScore(heur.board, heur.board.moves[j])
                  <= MoveScore(heur.board, heur.board.moves[HeurChosen])

\* C30 witness: of two centre pushes with the same score the second was
\* returned because its random term was the larger one
C30_Witness ==
    /\ HeurSelected /\ Len(heur.board.moves) = 2
    /\ heur.board.moves[1].uci = T_e2e4 /\ heur.board.moves[2].uci = T_d2d4
    /\ heur.jitter[1] < heur.jitter[2]
    /\ heur.out.best_move = T_d2d4

\* the weight table of the ensemble, in tenths: stockfish 0.8, random 0.2,
\* any other name 0.5
TableWeight(name) == IF name = "stockfish" THEN 8 ELSE IF name = "random" THEN 2 ELSE 5

\* C31: in the ensemble loop every get_best_move call that returns a result
\* adds one vote holding the returned move and the table weight of the
\* requested name, and a requested name that is not in the registry adds no
\* vote and starts no call.
C31_VotesCarryTableWeights ==
    [][ /\ (pc = "bm_return" /\ req.endpoint = "ensemble" /\ bm.status = "result")
            => /\ Len(votes') = Len(votes) + 1
               /\ votes'[Len(votes')].best_move = bm.result.best_move
               /\ votes'[Len(votes')].weight = TableWeight(req.names[ensIdx])
        /\ (pc = "ens_loop" /\ ensIdx <= Len(req.names)
               /\ req.names[ensIdx] \notin DOMAIN engines)
            => votes' = votes /\ bm' = bm /\ trace' = trace /\ pc' = "ens_loop" ]_vars

\* the adapter a requested name stands for
NamedStage(name) == IF name = "random" THEN "random" ELSE "local"

\* C32: while the ensemble has a get_best_move call running for a requested
\* name, only the adapter of that name has been invoked: no remote race and
\* no heuristic on behalf of "stockfish".
C32_EnsembleCallsOnlyNamedAdapter ==
    (req.endpoint = "ensemble" /\ bm.status # "none")
        => \A i \in DOMAIN trace : trace[i].stage = NamedStage(bm.engine)

\* a capture of a piece worth less than the capturing piece
LosingCapture(m) == m.captured # "none" /\ piece_values(m.captured) < piece_values(m.mover)

\* C33: when some legal move is not a capture that loses material,
\* select_smart_move returns no capture that loses material, whatever the
\* random terms and the check, centre, development and edge terms are.
C33_LosingCaptureNotSelected ==
    (HeurSelected /\ \E j \in DOMAIN heur.board.moves : ~LosingCapture(heur.board.moves[j]))
        => ~LosingCapture(heur.board.moves[HeurChosen])

\* C33 witness: a losing capture with the centre and development terms and
\* the largest random term stands first, an edge pawn move with the smallest
\* random term is returned
C33_Witness ==
    /\ HeurSelected /\ Len(heur.board.moves) = 2
    /\ heur.board.moves[1].uci = T_a1e5 /\ LosingCapture(heur.board.moves[1])
    /\ heur.board.moves[2].uci = T_h2h3
    /\ heur.jitter[1] = 5 /\ heur.jitter[2] = 1
    /\ heur.out.best_move = T_h2h3

\* C34: clean_move_format applied to its own output returns that output.
C34_NormalizerIdempotent ==
    norm.reapplied => norm.again = norm.out

\* C35: the confidence the ensemble reports for any list of collected results
\* lies between 0 and 80.0 (in tenths of a percent: 0 and 800), so 100.0 is
\* never reported.
C35_ConfidenceAtMostEighty ==
    tally.applied => tally.confidence >= 0 /\ tally.confidence <= 800

\* C35 witness: two results by "stockfish" for the same move have been
\* counted and the confidence is 80.0
C35_Witness ==
    /\ tally.applied /\ Len(tally.results) = 2
    /\ \A i \in DOMAIN tally.results :
          tally.results[i].best_move = T_e2e4 /\ tally.results[i].weight = 8
    /\ tally.confidence = 800

\* C36: in every result get_best_move returns with a non-empty best_line,
\* whichever stage produced it, the first move of best_line is best_move.
C36_BestLineStartsWithBestMove ==
    (pc = "bm_return" /\ bm.status = "result" /\ bm.result.best_line # << >>)
        => bm.result.best_line[1] = bm.result.best_move

\* C36 witness: chessdb answered with a line of several moves and the result
\* carries its first move both as best_move and at the head of best_line
C36_Witness ==
    /\ pc = "bm_return" /\ bm.status = "result"
    /\ bm.result.engine_used = "chessdb"
    /\ Len(bm.result.best_line) = 3
    /\ bm.result.best_line[1] = bm.result.best_move

\* C37: a get_best_move call naming "random" invokes the random engine and
\* nothing else (no native call, no remote task, no heuristic); a call naming
\* any other engine, known or not, is not rejected and invokes only stages of
\* the stockfish chain; and neither the direct heuristic branch nor the "No
\* Stockfish engine available" failure is ever reached.
C37_Routing ==
    /\ pc \notin {"backup_direct", "sf_no_engine"}
    /\ (bm.status # "none" /\ bm.engine = "random")
          => /\ \A i \in DOMAIN trace : trace[i].stage = "random"
             /\ analyseCalls = << >>
             /\ tasks = IdleTasks
    /\ (bm.status # "none" /\ bm.engine # "random")
          => \A i \in DOMAIN trace : trace[i].stage \in {"local", "race", "heuristic"}
    /\ (pc = "done" /\ req.endpoint = "best_move" /\ req.fenValid)
          => response.status # 400

\* C37 witness: a best-move request naming an engine the server does not know
\* has been answered by the native stage of the chain
C37_Witness ==
    /\ pc = "done" /\ req.endpoint = "best_move" /\ bm.engine = "other"
    /\ response.status = 200
    /\ trace = << Stage("local", "ok") >>

\* C38: an analyze call returns None exactly when initialize had not returned
\* before it; once initialize has returned the object is initialized, whatever
\* the interpreter search, the wrapper setup and the engine test gave; and an
\* analyze call made after initialize whose subprocess did not hand back a
\* JSON object is answered by the built-in move selector.
C38_StockfishJsLifecycle ==
    /\ js.init_run => js.self.is_initialized
    /\ js.called => ((js.out = JsNone) <=> ~js.after_init)
    /\ (js.called /\ js.after_init /\ js.run # "json") => js.out.source = "fallback"

\* C38 witness: with interpreter and wrapper in place the subprocess of an
\* analyze call raised and the built-in selector answered
C38_Witness ==
    /\ js.called /\ js.after_init
    /\ js.self.node_path /\ js.self.stockfish_wrapper_path
    /\ js.run = "raise"
    /\ js.out.source = "fallback" /\ js.out.bestmove # Empty

\* C39: on a position with a legal move, the bestmove _intelligent_fallback
\* gives and the best_move of analyze_with_lichess_api's final fallback are
\* legal moves of that position.
C39_OtherFallbacksReturnLegalMoves ==
    /\ (js.called /\ js.out.source = "fallback") => js.out.bestmove \in js.fen.legal
    /\ (lapi.applied /\ lapi.out.engine_used = "fallback")
          => lapi.out.best_move \in lapi.fen.legal

====
